---- MODULE Spec2Model ----
(***************************************************************************)
(* Time-indexed coordinate-frame transform graph of                        *)
(* packages/studio-base/src/panels/ThreeDimensionalViz/transforms.         *)
(*                                                                         *)
(* CoordinateFrame (CoordinateFrame.ts) is modelled operation by           *)
(* operation.  Frames are identified by their id (ids are unique inside    *)
(* one TransformTree), the AVLTree<Time, Transform> history of a frame is  *)
(* a function from its keys to the stored transforms, and a Time is the    *)
(* record [sec, nsec] of @foxglove/rostime.                                *)
(***************************************************************************)
EXTENDS Integers, Sequences, FiniteSets, TLC

VARIABLES
    frames,          \* TransformTree._frames: the ids registered in the tree
    parent,          \* CoordinateFrame._parent of every frame (None: undefined)
    transforms,      \* CoordinateFrame._transforms of every frame
    maxStorageTime,  \* CoordinateFrame.maxStorageTime of every frame
    outLower,        \* the caller's outLower [time, transform] pair
    outUpper,        \* the caller's outUpper [time, transform] pair
    clone,           \* the tree TransformTree.Clone returned: what its _frames is
    objects,         \* the Transform objects the caller keeps: their current value
    tempLower,       \* the module's tempLower [time, transform] pair
    tempUpper,       \* the module's tempUpper [time, transform] pair
    tempTransform,   \* the module's tempTransform
    tempMatrix,      \* the module's tempMatrix
    poses,           \* the caller's out and input poses: the objects their fields hold
    points,          \* the position and orientation objects of the caller: their values
    messages,        \* the array given to filterOutSupersededMessages
    topicsByName,    \* SceneBuilder.topicsByName: the names of the topics set
    collectors,      \* SceneBuilder.collectors: the markers collected by topic
    selectedNamespacesByTopic, \* SceneBuilder.selectedNamespacesByTopic
    enabledNamespaces,         \* SceneBuilder.enabledNamespaces
    sceneTransforms, \* SceneBuilder.transforms: the tree, once set
    rootTransformID, \* SceneBuilder.rootTransformID
    topicsMissingTransforms,   \* SceneBuilder.errors.topicsMissingTransforms
    last             \* the operation that ran last, its arguments and outcome

\* The temporaries of the module CoordinateFrame.ts.  The operators apply and
\* GetTransformMatrix compute a call as a function of its arguments; the
\* operators and actions of SpecScratch carry the temporaries from call to
\* call as the code does.
tempVars == <<tempLower, tempUpper, tempTransform, tempMatrix>>

\* The pose objects of the caller of apply.  The operator apply takes and
\* returns the values of poses; the actions of SpecAlias follow the objects.
poseVars == <<poses, points>>

\* The fields of the SceneBuilder that renderMarkers reads and writes.
sceneVars == <<topicsByName, collectors, selectedNamespacesByTopic, enabledNamespaces,
               sceneTransforms, rootTransformID, topicsMissingTransforms>>

\* The variables that the operations on frames and trees do not follow.
otherVars == <<tempVars, poseVars, messages, sceneVars>>

\* The variables of the graph of frames and of its caller.
graphVars == <<frames, parent, transforms, maxStorageTime, outLower, outUpper, clone,
               objects>>

vars == <<graphVars, otherVars, last>>

(***************************************************************************)
(* Bounds of the model.  Times are drawn on a half-second grid so that     *)
(* differences with a sub-second part occur.                               *)
(***************************************************************************)
MaxTick == 3
MaxDeltaTick == 2
MaxWindowTick == 3

NSEC_PER_SEC == 1000000000
HALF_SEC_NSEC == NSEC_PER_SEC \div 2

None == "undefined"

\* No tree has been cloned.
NoClone == [made |-> FALSE, shared |-> FALSE, own |-> {}]
FrameIds == {"map", "odom", "base_link"}

(***************************************************************************)
(* @foxglove/rostime                                                       *)
(***************************************************************************)
\* The remainder of JavaScript: its sign is the sign of the dividend.
JsRem(a, b) == IF a >= 0 THEN a % b ELSE 0 - ((0 - a) % b)

Abs(x) == IF x < 0 THEN 0 - x ELSE x

\* fixTime(t, allowNegative = true): carry nsec into sec, nsec ends in [0, 1e9).
fixTime(t) ==
    LET secsFromNanos == t.nsec \div NSEC_PER_SEC
        remaining == JsRem(t.nsec, NSEC_PER_SEC)
        newNanos == Abs(IF remaining < 0 THEN NSEC_PER_SEC + remaining ELSE remaining)
    IN  [sec |-> t.sec + secsFromNanos, nsec |-> newNanos]

subtract(a, b) == fixTime([sec |-> a.sec - b.sec, nsec |-> a.nsec - b.nsec])

compare(left, right) ==
    LET secDiff == left.sec - right.sec
    IN  IF secDiff # 0 THEN secDiff ELSE left.nsec - right.nsec

isLessThan(a, b) == compare(a, b) < 0

areEqual(a, b) == a.sec = b.sec /\ a.nsec = b.nsec

\* A time or duration on the half-second grid; k may be negative.
TimeOfTick(k) == [sec |-> k \div 2, nsec |-> (k % 2) * HALF_SEC_NSEC]

\* The value of a normalised time or duration in half seconds.
TickOf(t) == 2 * t.sec + (t.nsec \div HALF_SEC_NSEC)

Times == {TimeOfTick(k) : k \in 0..MaxTick}
MaxDeltas == {TimeOfTick(k) : k \in 0..MaxDeltaTick}
Windows == {TimeOfTick(k) : k \in (0 - 1)..MaxWindowTick}

TIME_ZERO == [sec |-> 0, nsec |-> 0]

\* A retention window of one second, not the default one.
SHORT_STORAGE_TIME == [sec |-> 1, nsec |-> 0]

DEFAULT_MAX_STORAGE_TIME == [sec |-> 10, nsec |-> 0]

(***************************************************************************)
(* Transform: a translation and a rotation about the Z axis counted in     *)
(* quarter turns.                                                          *)
(***************************************************************************)
Identity == [position |-> <<0, 0, 0>>, rotation |-> 0]

\* A half turn about Z with a translation; its components are even so that
\* the midpoint between it and the identity is whole.
HalfTurn == [position |-> <<2, 4, 6>>, rotation |-> 2]

\* The transforms fed to the frames.
Tfs == {Identity, HalfTurn}

\* The Transform objects of the test "point-in-time transformation", which
\* the caller keeps and changes in place: new Transform([0, 0, 0], [0, 0, 0, 1]).
ObjectNames == {"odom_T_baseLink", "map_T_odom"}

NewObjects == [n \in ObjectNames |-> Identity]

\* What a history entry holds: the transform that was given to addTransform,
\* which is a value of its own or the reference [ref |-> name] to an object
\* of the caller.  ValueOf is the transform read through it now.
ValueOf(x) == IF "ref" \in DOMAIN x THEN objects[x.ref] ELSE x

(***************************************************************************)
(* @foxglove/avl AVLTree<Time, Transform>, ordered by compare.             *)
(***************************************************************************)
EmptyTree == [k \in {} |-> Identity]

size(tree) == Cardinality(DOMAIN tree)

\* A variant that keeps the value already stored at the key.
setKeepFirst(tree, key, value) ==
    [k \in (DOMAIN tree) \cup {key} |-> IF k \in DOMAIN tree THEN tree[k] ELSE value]

\* set(key, value): insert, or replace the value stored at a key that compares
\* equal.
set(tree, key, value) ==
    [k \in (DOMAIN tree) \cup {key} |-> IF k = key THEN value ELSE tree[k]]

minKey(tree) == CHOOSE k \in DOMAIN tree : \A j \in DOMAIN tree : compare(k, j) <= 0

maxKey(tree) == CHOOSE k \in DOMAIN tree : \A j \in DOMAIN tree : compare(k, j) >= 0

minEntry(tree) == <<minKey(tree), tree[minKey(tree)]>>

maxEntry(tree) == <<maxKey(tree), tree[maxKey(tree)]>>

\* shift(): remove the entry with the smallest key.
shift(tree) == [k \in (DOMAIN tree) \ {minKey(tree)} |-> tree[k]]

\* A variant that only finds entries with a strictly smaller key.
findLessThan(tree, key) ==
    LET below == {k \in DOMAIN tree : compare(k, key) < 0}
    IN  IF below = {} THEN None
        ELSE LET g == CHOOSE k \in below : \A j \in below : compare(k, j) >= 0
             IN  <<g, tree[g]>>

\* findLessThanOrEqual(key): the entry with the greatest key <= key, or None.
findLessThanOrEqual(tree, key) ==
    LET below == {k \in DOMAIN tree : compare(k, key) <= 0}
    IN  IF below = {} THEN None
        ELSE LET g == CHOOSE k \in below : \A j \in below : compare(k, j) >= 0
             IN  <<g, tree[g]>>

\* A variant that returns the last entry above the key, not the first.
findGreatest(tree, key) ==
    LET above == {k \in DOMAIN tree : compare(k, key) > 0}
    IN  IF above = {} THEN None
        ELSE LET l == CHOOSE k \in above : \A j \in above : compare(k, j) >= 0
             IN  <<l, tree[l]>>

\* findGreaterThan(key): the entry with the least key > key, or None.
findGreaterThan(tree, key) ==
    LET above == {k \in DOMAIN tree : compare(k, key) > 0}
    IN  IF above = {} THEN None
        ELSE LET l == CHOOSE k \in above : \A j \in above : compare(k, j) <= 0
             IN  <<l, tree[l]>>

(***************************************************************************)
(* CoordinateFrame                                                         *)
(***************************************************************************)
\* A variant that excludes a difference equal to delta.
isDiffBelowDelta(timeA, timeB, delta) ==
    LET diff == subtract(timeA, timeB)
        absDiff == [sec |-> Abs(diff.sec), nsec |-> diff.nsec]
    IN  compare(absDiff, delta) < 0

\* isDiffWithinDelta(timeA, timeB, delta)
isDiffWithinDelta(timeA, timeB, delta) ==
    LET diff == subtract(timeA, timeB)
        absDiff == [sec |-> Abs(diff.sec), nsec |-> diff.nsec]
    IN  compare(absDiff, delta) <= 0

\* A variant of the eviction loop that drops entries from the newest end.
RECURSIVE purgeNewest(_, _)
purgeNewest(tree, startTime) ==
    IF size(tree) > 1 /\ isLessThan(minKey(tree), startTime)
    THEN purgeNewest([k \in (DOMAIN tree) \ {maxKey(tree)} |-> tree[k]], startTime)
    ELSE tree

\* A variant of the eviction loop that evicts at most one entry.
purgeOnce(tree, startTime) ==
    IF size(tree) > 1 /\ isLessThan(minKey(tree), startTime)
    THEN shift(tree)
    ELSE tree

\* A variant of the eviction loop that also evicts an entry at startTime.
RECURSIVE purgeThrough(_, _)
purgeThrough(tree, startTime) ==
    IF size(tree) > 1 /\ ~isLessThan(startTime, minKey(tree))
    THEN purgeThrough(shift(tree), startTime)
    ELSE tree

\* The eviction loop of CoordinateFrame.addTransform.
RECURSIVE purge(_, _)
purge(tree, startTime) ==
    IF size(tree) > 1 /\ isLessThan(minKey(tree), startTime)
    THEN purge(shift(tree), startTime)
    ELSE tree

\* A variant of addTransform that stores nothing.
addTransformDropped(tree, storage, time, transform) == tree

\* A variant of addTransform that stores a copy of the transform.
addTransformCopy(tree, storage, time, transform) ==
    purge(set(tree, time, ValueOf(transform)),
          subtract(maxKey(set(tree, time, ValueOf(transform))), storage))

\* CoordinateFrame.addTransform: the history after the call.
addTransform(tree, storage, time, transform) ==
    LET added == set(tree, time, transform)
        endTime == maxKey(added)
        startTime == subtract(endTime, storage)
    IN  purge(added, startTime)

\* A variant of findClosestTransforms that writes the entry it compared with
\* the time to outLower and outUpper before it returns false.
findClosestTransformsEager(tree, lower0, upper0, time, maxDelta) ==
    LET near(e) == [found |-> isDiffWithinDelta(time, e[1], maxDelta),
                    lower |-> e, upper |-> e]
    IN  IF size(tree) = 0 THEN [found |-> FALSE, lower |-> lower0, upper |-> upper0]
        ELSE IF size(tree) = 1 THEN near(maxEntry(tree))
        ELSE LET lte == findLessThanOrEqual(tree, time)
             IN  IF lte = None THEN near(minEntry(tree))
                 ELSE IF areEqual(lte[1], time)
                 THEN [found |-> TRUE, lower |-> lte, upper |-> lte]
                 ELSE LET gt == findGreaterThan(tree, time)
                      IN  IF gt = None THEN near(maxEntry(tree))
                          ELSE [found |-> TRUE, lower |-> lte, upper |-> gt]

\* CoordinateFrame.findClosestTransforms: [found, lower, upper]; lower and
\* upper are the values outLower and outUpper hold after the call, lower0 and
\* upper0 the values they hold before it.
findClosestTransforms(tree, lower0, upper0, time, maxDelta) ==
    LET miss == [found |-> FALSE, lower |-> lower0, upper |-> upper0]
        both(e) == [found |-> TRUE, lower |-> e, upper |-> e]
    IN  IF size(tree) = 0 THEN miss
        ELSE IF size(tree) = 1
        THEN IF isDiffWithinDelta(time, maxEntry(tree)[1], maxDelta)
             THEN both(maxEntry(tree)) ELSE miss
        ELSE LET lte == findLessThanOrEqual(tree, time)
             IN  IF lte = None
                 THEN IF isDiffWithinDelta(time, minEntry(tree)[1], maxDelta)
                      THEN both(minEntry(tree)) ELSE miss
                 ELSE IF areEqual(lte[1], time) THEN both(lte)
                 ELSE LET gt == findGreaterThan(tree, time)
                      IN  IF gt = None
                          THEN IF isDiffWithinDelta(time, maxEntry(tree)[1], maxDelta)
                               THEN both(maxEntry(tree)) ELSE miss
                          ELSE [found |-> TRUE, lower |-> lte, upper |-> gt]

\* The call does not return: a loop of the code never ends.
Hang == "hang"

\* A variant of setParent that lacks the check.
setParentUnchecked(cur, p) == [threw |-> FALSE, parent |-> p]

\* A variant of setParent that never assigns.
setParentIgnored(cur, p) == [threw |-> cur # None /\ cur # p, parent |-> cur]

\* A variant of setParent that unlinks the frame when it throws.
setParentCleared(cur, p) ==
    [threw |-> cur # None /\ cur # p, parent |-> IF cur # None /\ cur # p THEN None ELSE p]

\* A variant of setParent that assigns before it checks.
setParentThenThrow(cur, p) == [threw |-> cur # None /\ cur # p, parent |-> p]

\* CoordinateFrame.setParent on a frame whose _parent is cur: whether it
\* throws, and _parent after the call.
setParent(cur, p) ==
    IF cur # None /\ cur # p
    THEN [threw |-> TRUE, parent |-> cur]
    ELSE [threw |-> FALSE, parent |-> p]

\* The loop of CoordinateFrame.findAncestor from the frame a on; a frame seen
\* twice means that the parent links cycle and the loop never ends.
RECURSIVE ancestorWalk(_, _, _, _)
ancestorWalk(par, a, id, seen) ==
    IF a = None THEN None
    ELSE IF a = id THEN a
    ELSE IF a \in seen THEN Hang
    ELSE ancestorWalk(par, par[a], id, seen \cup {a})

\* CoordinateFrame.findAncestor
findAncestor(par, f, id) == ancestorWalk(par, par[f], id, {})

\* CoordinateFrame.root
RECURSIVE rootWalk(_, _, _)
rootWalk(par, f, seen) ==
    IF par[f] = None THEN f
    ELSE IF f \in seen THEN Hang
    ELSE rootWalk(par, par[f], seen \cup {f})

root(par, f) == rootWalk(par, f, {})

(***************************************************************************)
(* Transform, Pose and mat4.  A matrix is the rigid transform [t, r]: the  *)
(* translation t and the rotation of r quarter turns about Z.              *)
(***************************************************************************)
\* The rotation of r quarter turns about Z applied to a vector.
Rotate(r, v) ==
    CASE r % 4 = 0 -> v
      [] r % 4 = 1 -> <<0 - v[2], v[1], v[3]>>
      [] r % 4 = 2 -> <<0 - v[1], 0 - v[2], v[3]>>
      [] r % 4 = 3 -> <<v[2], 0 - v[1], v[3]>>

VecAdd(a, b) == <<a[1] + b[1], a[2] + b[2], a[3] + b[3]>>

VecNeg(a) == <<0 - a[1], 0 - a[2], 0 - a[3]>>

mat4Identity == [t |-> <<0, 0, 0>>, r |-> 0]

\* A variant of multiply with the factors exchanged: b * a.
multiplySwapped(a, b) == [t |-> VecAdd(b.t, Rotate(b.r, a.t)), r |-> (a.r + b.r) % 4]

\* mat4.multiply(out, a, b): a * b
multiply(a, b) == [t |-> VecAdd(a.t, Rotate(a.r, b.t)), r |-> (a.r + b.r) % 4]

\* Transform.matrix()
matrix(tf) == [t |-> tf.position, r |-> tf.rotation % 4]

\* Transform.setMatrix(m)
setMatrix(m) == [position |-> m.t, rotation |-> m.r]

\* Transform.setPose(pose)
setPose(pose) == [position |-> pose.position, rotation |-> pose.orientation]

\* Transform.toPose(out)
toPose(tf) == [position |-> tf.position, orientation |-> tf.rotation]

\* Transform.Interpolate(out, a, b, t) for t = num / den: vec3.lerp of the
\* translations and quat.slerp of the rotations.  A rotation of r quarter
\* turns is held as the quaternion of half angle r * 45 degrees, and slerp
\* takes the shorter arc between the two quaternions.  The result is exact
\* when the divisions leave no remainder.
TransformInterpolate(a, b, num, den) ==
    LET lerp(x, y) == x + (((y - x) * num) \div den)
        d == b.rotation - a.rotation
        arc == IF d = 3 THEN 0 - 1 ELSE IF d = 0 - 3 THEN 1 ELSE d
    IN  [position |-> <<lerp(a.position[1], b.position[1]),
                        lerp(a.position[2], b.position[2]),
                        lerp(a.position[3], b.position[3])>>,
         rotation |-> (a.rotation + ((arc * num) \div den)) % 4]

\* A variant of Interpolate that does not clamp the fraction.
InterpolateUnclamped(lower, upper, time) ==
    IF areEqual(lower[1], upper[1]) THEN upper[2]
    ELSE TransformInterpolate(lower[2], upper[2], TickOf(subtract(time, lower[1])),
                              TickOf(subtract(upper[1], lower[1])))

\* CoordinateFrame.Interpolate(undefined, outTf, lower, upper, time): outTf.
\* percentOf(lowerTime, upperTime, time) is clamped to [0, 1].
Interpolate(lower, upper, time) ==
    IF areEqual(lower[1], upper[1]) THEN upper[2]
    ELSE LET den == TickOf(subtract(upper[1], lower[1]))
             raw == TickOf(subtract(time, lower[1]))
             num == IF raw < 0 THEN 0 ELSE IF raw > den THEN den ELSE raw
         IN  TransformInterpolate(lower[2], upper[2], num, den)

\* The loop of CoordinateFrame.GetTransformMatrix from the frame cur on, in
\* three parts: the loop test and the lookup (matrixWalk), the multiplication
\* by the interpolated transform (matrixHop) and the step to the parent
\* (matrixNext).  The scratch pairs tempLower and tempUpper are written by
\* findClosestTransforms before they are read, tempTransform by Interpolate.
\* A frame left twice means that the loop never ends.
RECURSIVE matrixWalk(_, _, _, _, _, _, _, _)
RECURSIVE matrixHop(_, _, _, _, _, _, _, _, _)
RECURSIVE matrixNext(_, _, _, _, _, _, _, _)
\* A variant of matrixNext that returns false at a frame without parent.
matrixNextSoft(par, trees, next, cur, parentFrame, time, maxDelta, seen) ==
    IF par[cur] = None THEN [status |-> "false", out |-> next]
    ELSE IF cur \in seen THEN [status |-> Hang, out |-> next]
    ELSE matrixWalk(par, trees, next, par[cur], parentFrame, time, maxDelta,
                    seen \cup {cur})

matrixNext(par, trees, next, cur, parentFrame, time, maxDelta, seen) ==
    IF par[cur] = None THEN [status |-> "throw", out |-> next]
    ELSE IF cur \in seen THEN [status |-> Hang, out |-> next]
    ELSE matrixWalk(par, trees, next, par[cur], parentFrame, time, maxDelta,
                    seen \cup {cur})

\* A variant of matrixHop that throws on a lookup miss.
matrixHopThrow(par, trees, out, cur, parentFrame, time, maxDelta, seen, found) ==
    IF ~found.found THEN [status |-> "throw", out |-> out]
    ELSE matrixNext(par, trees,
                    multiply(matrix(Interpolate(found.lower, found.upper, time)), out),
                    cur, parentFrame, time, maxDelta, seen)

matrixHop(par, trees, out, cur, parentFrame, time, maxDelta, seen, found) ==
    IF ~found.found THEN [status |-> "false", out |-> out]
    ELSE matrixNext(par, trees,
                    multiply(matrix(Interpolate(found.lower, found.upper, time)), out),
                    cur, parentFrame, time, maxDelta, seen)

\* A variant of matrixWalk that looks up the history of parentFrame as well.
matrixWalkAbove(par, trees, out, cur, parentFrame, time, maxDelta, seen) ==
    IF cur = parentFrame
    THEN [status |-> IF findClosestTransforms(trees[cur], <<TIME_ZERO, Identity>>,
                                              <<TIME_ZERO, Identity>>, time,
                                              maxDelta).found
                     THEN "true" ELSE "false",
          out |-> out]
    ELSE matrixHop(par, trees, out, cur, parentFrame, time, maxDelta, seen,
                   findClosestTransforms(trees[cur], <<TIME_ZERO, Identity>>,
                                         <<TIME_ZERO, Identity>>, time, maxDelta))

matrixWalk(par, trees, out, cur, parentFrame, time, maxDelta, seen) ==
    IF cur = parentFrame THEN [status |-> "true", out |-> out]
    ELSE matrixHop(par, trees, out, cur, parentFrame, time, maxDelta, seen,
                   findClosestTransforms(trees[cur], <<TIME_ZERO, Identity>>,
                                         <<TIME_ZERO, Identity>>, time, maxDelta))

\* CoordinateFrame.GetTransformMatrix: "true", "false", "throw" or Hang, and
\* the out matrix.
GetTransformMatrix(par, trees, parentFrame, childFrame, time, maxDelta) ==
    matrixWalk(par, trees, mat4Identity, childFrame, parentFrame, time, maxDelta, {})

\* The inversion of CoordinateFrame.Apply: the rotation is transposed and
\* the translation negated.
invertMatrix(m) == [t |-> VecNeg(m.t), r |-> (4 - m.r) % 4]

\* CoordinateFrame.Apply once GetTransformMatrix has returned got.
applyMatrix(out, input, invert, got) ==
    IF got.status # "true" THEN [status |-> got.status, out |-> out]
    ELSE [status |-> "true",
          out |-> toPose(setMatrix(multiply(
                      IF invert THEN invertMatrix(got.out) ELSE got.out,
                      matrix(setPose(input)))))]

\* CoordinateFrame.Apply: the status and the out pose after the call.
Apply(par, trees, out, input, parentFrame, child, invert, time, maxDelta) ==
    applyMatrix(out, input, invert,
                GetTransformMatrix(par, trees, parentFrame, child, time, maxDelta))

\* The search for a common parent in CoordinateFrame.apply, from curSrcFrame on.
RECURSIVE commonWalk(_, _, _, _)
RECURSIVE commonStep(_, _, _, _, _)
commonStep(par, this, curSrcFrame, seen, commonParent) ==
    IF commonParent # None THEN commonParent
    ELSE IF curSrcFrame \in seen THEN Hang
    ELSE commonWalk(par, this, par[curSrcFrame], seen \cup {curSrcFrame})

commonWalk(par, this, curSrcFrame, seen) ==
    IF curSrcFrame = None THEN None
    ELSE commonStep(par, this, curSrcFrame, seen, findAncestor(par, this, curSrcFrame))

\* What apply returns for a status of Apply.
applyResult(r) ==
    [result |-> CASE r.status = "true" -> "out"
                  [] r.status = "false" -> "undefined"
                  [] OTHER -> r.status,
     out |-> r.out]

\* A variant of the identity case that leaves out as it is.
applyIdentityKeepOut(out, input) == [result |-> "out", out |-> out]

\* The identity case of CoordinateFrame.apply: out takes the position and the
\* orientation of input.
applyIdentity(out, input) ==
    [result |-> "out",
     out |-> [position |-> input.position, orientation |-> input.orientation]]

\* The common parent case of CoordinateFrame.apply once the first Apply, from
\* the source frame to the common parent, has returned first: the second
\* Apply reads and writes out.
applySecond(par, trees, this, commonParent, time, maxDelta, first) ==
    IF first.status # "true" THEN applyResult(first)
    ELSE applyResult(Apply(par, trees, first.out, first.out, commonParent, this, TRUE,
                           time, maxDelta))

\* A variant of applyCommon that throws when there is no common parent.
applyCommonThrow(par, trees, this, out, input, srcFrame, time, maxDelta, commonParent) ==
    IF commonParent = Hang THEN [result |-> Hang, out |-> out]
    ELSE IF commonParent = None THEN [result |-> "throw", out |-> out]
    ELSE applySecond(par, trees, this, commonParent, time, maxDelta,
                     Apply(par, trees, out, input, commonParent, srcFrame, FALSE, time,
                           maxDelta))

\* CoordinateFrame.apply once the search for a common parent has ended.
applyCommon(par, trees, this, out, input, srcFrame, time, maxDelta, commonParent) ==
    IF commonParent = Hang THEN [result |-> Hang, out |-> out]
    ELSE IF commonParent = None THEN [result |-> "undefined", out |-> out]
    ELSE applySecond(par, trees, this, commonParent, time, maxDelta,
                     Apply(par, trees, out, input, commonParent, srcFrame, FALSE, time,
                           maxDelta))

\* CoordinateFrame.apply once this.findAncestor(srcFrame.id) has returned down.
applyDown(par, trees, this, out, input, srcFrame, time, maxDelta, down) ==
    IF down = Hang THEN [result |-> Hang, out |-> out]
    ELSE IF down # None
    THEN applyResult(Apply(par, trees, out, input, srcFrame, this, TRUE, time, maxDelta))
    ELSE applyCommon(par, trees, this, out, input, srcFrame, time, maxDelta,
                     commonWalk(par, this, srcFrame, {}))

\* A variant of applyUp that passes the two frames to Apply in the other order.
applyUpSwapped(par, trees, this, out, input, srcFrame, time, maxDelta, up) ==
    IF up = Hang THEN [result |-> Hang, out |-> out]
    ELSE IF up # None
    THEN applyResult(Apply(par, trees, out, input, srcFrame, this, FALSE, time, maxDelta))
    ELSE applyDown(par, trees, this, out, input, srcFrame, time, maxDelta,
                   findAncestor(par, this, srcFrame))

\* CoordinateFrame.apply once srcFrame.findAncestor(this.id) has returned up.
applyUp(par, trees, this, out, input, srcFrame, time, maxDelta, up) ==
    IF up = Hang THEN [result |-> Hang, out |-> out]
    ELSE IF up # None
    THEN applyResult(Apply(par, trees, out, input, this, srcFrame, FALSE, time, maxDelta))
    ELSE applyDown(par, trees, this, out, input, srcFrame, time, maxDelta,
                   findAncestor(par, this, srcFrame))

\* CoordinateFrame.apply on the frame this: the result ("out", "undefined",
\* "throw" or Hang) and the out pose after the call.
apply(par, trees, this, out, input, srcFrame, time, maxDelta) ==
    IF srcFrame = this THEN applyIdentity(out, input)
    ELSE applyUp(par, trees, this, out, input, srcFrame, time, maxDelta,
                 findAncestor(par, srcFrame, this))

(***************************************************************************)
(* GetTransformMatrix, Apply and apply with the module's temporaries: t is *)
(* the record of tempLower, tempUpper, tempTransform and tempMatrix before *)
(* a step, and every result carries the record after it.  Inside Apply the *)
(* out matrix of GetTransformMatrix is tempMatrix.                         *)
(***************************************************************************)
RECURSIVE matrixWalkTemps(_, _, _, _, _, _, _, _, _)

\* mat4.multiply(out, tempTransform.matrix(), out) and the step to the parent.
matrixNextTemps(par, trees, t, out, cur, parentFrame, time, maxDelta, seen) ==
    IF par[cur] = None
    THEN [status |-> "throw", out |-> multiply(matrix(t.tempTransform), out), temps |-> t]
    ELSE IF cur \in seen
    THEN [status |-> Hang, out |-> multiply(matrix(t.tempTransform), out), temps |-> t]
    ELSE matrixWalkTemps(par, trees, t, multiply(matrix(t.tempTransform), out), par[cur],
                         parentFrame, time, maxDelta, seen \cup {cur})

\* CoordinateFrame.Interpolate(undefined, tempTransform, tempLower, tempUpper,
\* time) once findClosestTransforms has written tempLower and tempUpper.
matrixInterpolateTemps(par, trees, t, out, cur, parentFrame, time, maxDelta, seen) ==
    matrixNextTemps(par, trees,
                    [t EXCEPT !.tempTransform = Interpolate(t.tempLower, t.tempUpper, time)],
                    out, cur, parentFrame, time, maxDelta, seen)

\* The loop body once findClosestTransforms(tempLower, tempUpper, time,
\* maxDelta) has returned found.
matrixHopTemps(par, trees, t, out, cur, parentFrame, time, maxDelta, seen, found) ==
    IF ~found.found
    THEN [status |-> "false", out |-> out,
          temps |-> [t EXCEPT !.tempLower = found.lower, !.tempUpper = found.upper]]
    ELSE matrixInterpolateTemps(par, trees,
                                [t EXCEPT !.tempLower = found.lower,
                                          !.tempUpper = found.upper],
                                out, cur, parentFrame, time, maxDelta, seen)

matrixWalkTemps(par, trees, t, out, cur, parentFrame, time, maxDelta, seen) ==
    IF cur = parentFrame THEN [status |-> "true", out |-> out, temps |-> t]
    ELSE matrixHopTemps(par, trees, t, out, cur, parentFrame, time, maxDelta, seen,
                        findClosestTransforms(trees[cur], t.tempLower, t.tempUpper, time,
                                              maxDelta))

\* A variant of GetTransformMatrixTemps without mat4.identity(out).
GetTransformMatrixStale(par, trees, t, out, parentFrame, childFrame, time, maxDelta) ==
    matrixWalkTemps(par, trees, t, out, childFrame, parentFrame, time, maxDelta, {})

\* CoordinateFrame.GetTransformMatrix(out, ...): the status, the out matrix
\* and the temporaries after the call.
GetTransformMatrixTemps(par, trees, t, out, parentFrame, childFrame, time, maxDelta) ==
    matrixWalkTemps(par, trees, t, mat4Identity, childFrame, parentFrame, time, maxDelta,
                    {})

\* The end of CoordinateFrame.Apply, m being tempMatrix after the inversion:
\* setPose, multiply, setMatrix and toPose.
applyPoseTemps(t, input, m) ==
    [status |-> "true",
     out |-> toPose(setMatrix(multiply(m, matrix(setPose(input))))),
     temps |-> [t EXCEPT !.tempTransform = setMatrix(multiply(m, matrix(setPose(input)))),
                         !.tempMatrix = multiply(m, matrix(setPose(input)))]]

\* CoordinateFrame.Apply once GetTransformMatrix(tempMatrix, ...) has
\* returned got.
applyMatrixTemps(out, input, invert, got) ==
    IF got.status # "true"
    THEN [status |-> got.status, out |-> out,
          temps |-> [got.temps EXCEPT !.tempMatrix = got.out]]
    ELSE applyPoseTemps(got.temps, input,
                        IF invert THEN invertMatrix(got.out) ELSE got.out)

\* CoordinateFrame.Apply: the status, the out pose and the temporaries after
\* the call.
ApplyTemps(par, trees, t, out, input, parentFrame, child, invert, time, maxDelta) ==
    applyMatrixTemps(out, input, invert,
                     GetTransformMatrixTemps(par, trees, t, t.tempMatrix, parentFrame,
                                             child, time, maxDelta))

\* What apply returns for a result of ApplyTemps.
applyResultTemps(r) ==
    [result |-> applyResult(r).result, out |-> r.out, temps |-> r.temps]

\* The common parent case once the first Apply has returned first.
applySecondTemps(par, trees, this, commonParent, time, maxDelta, first) ==
    IF first.status # "true" THEN applyResultTemps(first)
    ELSE applyResultTemps(ApplyTemps(par, trees, first.temps, first.out, first.out,
                                     commonParent, this, TRUE, time, maxDelta))

applyCommonTemps(par, trees, t, this, out, input, srcFrame, time, maxDelta, commonParent) ==
    IF commonParent = Hang THEN [result |-> Hang, out |-> out, temps |-> t]
    ELSE IF commonParent = None THEN [result |-> "undefined", out |-> out, temps |-> t]
    ELSE applySecondTemps(par, trees, this, commonParent, time, maxDelta,
                          ApplyTemps(par, trees, t, out, input, commonParent, srcFrame,
                                     FALSE, time, maxDelta))

applyDownTemps(par, trees, t, this, out, input, srcFrame, time, maxDelta, down) ==
    IF down = Hang THEN [result |-> Hang, out |-> out, temps |-> t]
    ELSE IF down # None
    THEN applyResultTemps(ApplyTemps(par, trees, t, out, input, srcFrame, this, TRUE, time,
                                     maxDelta))
    ELSE applyCommonTemps(par, trees, t, this, out, input, srcFrame, time, maxDelta,
                          commonWalk(par, this, srcFrame, {}))

applyUpTemps(par, trees, t, this, out, input, srcFrame, time, maxDelta, up) ==
    IF up = Hang THEN [result |-> Hang, out |-> out, temps |-> t]
    ELSE IF up # None
    THEN applyResultTemps(ApplyTemps(par, trees, t, out, input, this, srcFrame, FALSE, time,
                                     maxDelta))
    ELSE applyDownTemps(par, trees, t, this, out, input, srcFrame, time, maxDelta,
                        findAncestor(par, this, srcFrame))

\* CoordinateFrame.apply on the frame this: the result, the out pose and the
\* temporaries after the call.
applyTemps(par, trees, t, this, out, input, srcFrame, time, maxDelta) ==
    IF srcFrame = this
    THEN [result |-> "out", out |-> applyIdentity(out, input).out, temps |-> t]
    ELSE applyUpTemps(par, trees, t, this, out, input, srcFrame, time, maxDelta,
                      findAncestor(par, srcFrame, this))

(***************************************************************************)
(* A single CoordinateFrame used directly: new CoordinateFrame(id,         *)
(* undefined, maxStorageTime), then addTransform and findClosestTransforms *)
(* calls on it.                                                            *)
(***************************************************************************)
TheFrame == "base_link"

\* The temporaries when the module is loaded.
InitTemps ==
    /\ tempLower = <<TIME_ZERO, Identity>>
    /\ tempUpper = <<TIME_ZERO, Identity>>
    /\ tempTransform = Identity
    /\ tempMatrix = mat4Identity

\* The ids of the objects that an out pose and an input pose made by the
\* caller hold.
PointIds == {"out.position", "out.orientation", "input.position", "input.orientation"}

\* Two poses of the caller, each with a position and an orientation object
\* of its own: out is emptyPose().
InitPoses ==
    /\ poses = [out |-> [position |-> "out.position", orientation |-> "out.orientation"],
                input |-> [position |-> "input.position",
                           orientation |-> "input.orientation"]]
    /\ points = [id \in PointIds |->
                   CASE id = "out.position" -> <<0, 0, 0>>
                     [] id = "out.orientation" -> 0
                     [] id = "input.position" -> <<1, 0, 2>>
                     [] id = "input.orientation" -> 1]

\* The topics that the scene is given.
TopicNames == {"/markers", "/poses"}

\* A new SceneBuilder.
InitScene ==
    /\ topicsByName = {}
    /\ collectors = [t \in {} |-> {}]
    /\ selectedNamespacesByTopic = <<>>
    /\ enabledNamespaces = {}
    /\ sceneTransforms = None
    /\ rootTransformID = None
    /\ topicsMissingTransforms = [t \in {} |-> {}]

InitOther == InitTemps /\ InitPoses /\ InitScene /\ messages = <<>>

InitFrame ==
    /\ frames = {}
    /\ parent = [f \in FrameIds |-> None]
    /\ transforms = [f \in FrameIds |-> EmptyTree]
    /\ \E w \in Windows : maxStorageTime = [f \in FrameIds |-> w]
    /\ outLower = <<TIME_ZERO, Identity>>
    /\ outUpper = <<TIME_ZERO, Identity>>
    /\ clone = NoClone
    /\ objects = NewObjects
    /\ InitOther
    /\ last = [op |-> "new"]

FrameAddTransform(f, time, transform) ==
    /\ transforms' = [transforms EXCEPT
                        ![f] = addTransform(@, maxStorageTime[f], time, transform)]
    /\ last' = [op |-> "CoordinateFrame.addTransform", frame |-> f, time |-> time,
                transform |-> transform, before |-> transforms[f]]
    /\ UNCHANGED <<frames, parent, maxStorageTime, outLower, outUpper, clone, objects,
                   otherVars>>

FrameFindClosestTransforms(f, time, maxDelta) ==
    LET r == findClosestTransforms(transforms[f], outLower, outUpper, time, maxDelta)
    IN  /\ outLower' = r.lower
        /\ outUpper' = r.upper
        /\ last' = [op |-> "findClosestTransforms", frame |-> f, time |-> time,
                    maxDelta |-> maxDelta, found |-> r.found]
        /\ UNCHANGED <<frames, parent, transforms, maxStorageTime, clone, objects, otherVars>>

\* CoordinateFrame.Interpolate(undefined, outTf, outLower, outUpper, time) on
\* the bracket that the lookup before it found.
FrameInterpolate(time) ==
    /\ last.op = "findClosestTransforms"
    /\ last.found
    /\ last' = [op |-> "Interpolate", lower |-> outLower, upper |-> outUpper,
                time |-> time, outTf |-> Interpolate(outLower, outUpper, time)]
    /\ UNCHANGED <<frames, parent, transforms, maxStorageTime, outLower, outUpper,
                   clone, objects, otherVars>>

NextFrame ==
    \/ \E t \in Times, tf \in Tfs : FrameAddTransform(TheFrame, t, tf)
    \/ \E t \in Times, d \in MaxDeltas : FrameFindClosestTransforms(TheFrame, t, d)
    \/ \E t \in Times : FrameInterpolate(t)

SpecFrame == InitFrame /\ [][NextFrame]_vars

(***************************************************************************)
(* TransformTree: the registry of frames by id.                            *)
(***************************************************************************)
MaxPose == 1
MaxQueryTick == 3

\* The stamp of the transforms fed to the tree.
TreeTimes == {TIME_ZERO}

\* emptyPose() is PoseOf(0).
PoseOf(i) == [position |-> <<i, 0, 2 * i>>, orientation |-> i % 4]

Poses == {PoseOf(i) : i \in 0..MaxPose}

\* The default maxDelta of apply.
DEFAULT_MAX_DELTA == [sec |-> 1, nsec |-> 0]

\* A geometry_msgs/TransformStamped message.
TF(frameId, stamp, childFrameId, transform) ==
    [header |-> [frame_id |-> frameId, stamp |-> stamp],
     child_frame_id |-> childFrameId,
     transform |-> [translation |-> transform.position, rotation |-> transform.rotation]]

Init ==
    /\ frames = {}
    /\ parent = [f \in FrameIds |-> None]
    /\ transforms = [f \in FrameIds |-> EmptyTree]
    /\ maxStorageTime = [f \in FrameIds |-> DEFAULT_MAX_STORAGE_TIME]
    /\ outLower = <<TIME_ZERO, Identity>>
    /\ outUpper = <<TIME_ZERO, Identity>>
    /\ clone = NoClone
    /\ objects = NewObjects
    /\ InitOther
    /\ last = [op |-> "new"]

\* A variant of getOrCreateFrame whose registry holds the one frame only.
getOrCreateFrameAlone(registry, id) == {id}

\* TransformTree.getOrCreateFrame: the registry after the call.
getOrCreateFrame(registry, id) == registry \cup {id}

\* The frame objects a call of getOrCreateFrame constructs: new
\* CoordinateFrame(id, undefined) has no parent, an empty history and the
\* default maxStorageTime.
Construct(ids) ==
    /\ \A id \in ids \ frames : parent[id] = None /\ transforms[id] = EmptyTree
    /\ maxStorageTime' = [f \in FrameIds |->
                            IF f \in ids \ frames THEN DEFAULT_MAX_STORAGE_TIME
                            ELSE maxStorageTime[f]]

TreeGetOrCreateFrame(id) ==
    /\ frames' = getOrCreateFrame(frames, id)
    /\ Construct({id})
    /\ last' = [op |-> "getOrCreateFrame", frame |-> id, existed |-> id \in frames]
    /\ UNCHANGED <<parent, transforms, outLower, outUpper, clone, objects, otherVars>>

\* TransformTree.addTransform(frameId, parentFrameId, time, transform), under
\* the name op: the frames are created when unknown, the parent is set when
\* the frame has none or another one, which throws on another one, and then the
\* transform is added to the history of the frame.
TreeAdd(op, frameId, parentFrameId, time, transform) ==
    LET curParentFrame == parent[frameId]
        link == IF curParentFrame = None \/ curParentFrame # parentFrameId
                THEN setParent(curParentFrame, parentFrameId)
                ELSE [threw |-> FALSE, parent |-> curParentFrame]
        created == IF curParentFrame = None \/ curParentFrame # parentFrameId
                   THEN {frameId, parentFrameId} ELSE {frameId}
    IN  /\ frames' = frames \cup created
        /\ Construct(created)
        /\ parent' = [parent EXCEPT ![frameId] = link.parent]
        /\ transforms' = IF link.threw THEN transforms
                         ELSE [transforms EXCEPT ![frameId] =
                                 addTransform(@, maxStorageTime[frameId], time, transform)]
        /\ last' = [op |-> op, frame |-> frameId, parentArg |-> parentFrameId,
                    time |-> time, transform |-> transform, threw |-> link.threw,
                    parentBefore |-> parent[frameId], before |-> transforms[frameId]]
        /\ UNCHANGED <<outLower, outUpper, clone, objects, otherVars>>

TreeAddTransform(frameId, parentFrameId, time, transform) ==
    TreeAdd("addTransform", frameId, parentFrameId, time, transform)

\* A variant of addTransformMessage that takes the frame from header.frame_id
\* and the parent from child_frame_id.
TreeAddTransformMessageSwapped(tf) ==
    TreeAdd("addTransformMessage", tf.header.frame_id, tf.child_frame_id, tf.header.stamp,
            [position |-> tf.transform.translation, rotation |-> tf.transform.rotation])

\* TransformTree.addTransformMessage(tf)
TreeAddTransformMessage(tf) ==
    TreeAdd("addTransformMessage", tf.child_frame_id, tf.header.frame_id, tf.header.stamp,
            [position |-> tf.transform.translation, rotation |-> tf.transform.rotation])

\* CoordinateFrame.setParent called on a frame of the tree.
FrameSetParent(f, p) ==
    /\ f \in frames /\ p \in frames
    /\ parent' = [parent EXCEPT ![f] = setParent(@, p).parent]
    /\ last' = [op |-> "setParent", frame |-> f, parentArg |-> p,
                threw |-> setParent(parent[f], p).threw, parentBefore |-> parent[f]]
    /\ UNCHANGED <<frames, transforms, maxStorageTime, outLower, outUpper, clone, objects,
                   otherVars>>

\* The record of an apply call that returned r.
applied(frameId, srcFrameId, time, maxDelta, input, output, r) ==
    [op |-> "apply", frame |-> frameId, srcFrame |-> srcFrameId, time |-> time,
     maxDelta |-> maxDelta, input |-> input, outBefore |-> output,
     result |-> r.result, out |-> r.out]

\* TransformTree.apply(output, input, frameId, srcFrameId, time, maxDelta):
\* undefined when a frame is unknown, else frame.apply.
TreeApply(output, input, frameId, srcFrameId, time, maxDelta) ==
    /\ last' = applied(frameId, srcFrameId, time, maxDelta, input, output,
                       IF frameId \notin frames \/ srcFrameId \notin frames
                       THEN [result |-> "undefined", out |-> output]
                       ELSE apply(parent, transforms, frameId, output, input, srcFrameId,
                                  time, maxDelta))
    /\ UNCHANGED <<frames, parent, transforms, maxStorageTime, outLower, outUpper, clone, objects,
                   otherVars>>

Next ==
    \/ \E id \in FrameIds : TreeGetOrCreateFrame(id)
    \/ \E c, p \in FrameIds, t \in TreeTimes, tf \in Tfs : TreeAddTransform(c, p, t, tf)
    \/ \E c, p \in FrameIds, t \in TreeTimes, tf \in Tfs :
          TreeAddTransformMessage(TF(p, t, c, tf))
    \/ \E f, p \in FrameIds : FrameSetParent(f, p)
    \/ \E f, src \in FrameIds :
          TreeApply(PoseOf(0), PoseOf(0), f, src, TIME_ZERO, DEFAULT_MAX_DELTA)

Spec == Init /\ [][Next]_vars

(***************************************************************************)
(* Sequences that mix addTransform and addTransformMessage, and nothing    *)
(* else.                                                                   *)
(***************************************************************************)
NextMessage ==
    \/ \E c, p \in FrameIds, t \in TreeTimes, tf \in Tfs : TreeAddTransform(c, p, t, tf)
    \/ \E c, p \in FrameIds, t \in TreeTimes, tf \in Tfs :
          TreeAddTransformMessage(TF(p, t, c, tf))

SpecMessage == Init /\ [][NextMessage]_vars

(***************************************************************************)
(* The operations of the tree that change the graph, and nothing else:     *)
(* getOrCreateFrame, addTransform and addTransformMessage, with two stamps *)
(* further apart than the retention window, so that insertions evict.      *)
(***************************************************************************)
LATE_STAMP == [sec |-> 11, nsec |-> 0]

GraphTimes == {TIME_ZERO, LATE_STAMP}

NextGraph ==
    \/ \E id \in FrameIds : TreeGetOrCreateFrame(id)
    \/ \E c, p \in FrameIds, t \in GraphTimes : TreeAddTransform(c, p, t, HalfTurn)
    \/ \E c, p \in FrameIds, t \in GraphTimes :
          TreeAddTransformMessage(TF(p, t, c, HalfTurn))

SpecGraph == Init /\ [][NextGraph]_vars

(***************************************************************************)
(* Pose queries on the trees that addTransform and getOrCreateFrame build. *)
(* apply leaves the tree as it is, so a query that follows a query reaches *)
(* no state that a query following the previous insertion does not reach:  *)
(* queries are issued after an insertion or a registration only.           *)
(***************************************************************************)
QueryTimes == {TimeOfTick(k) : k \in 0..MaxQueryTick}

\* The maxDelta arguments of the queries: none, and the default.
ApplyDeltas == {TIME_ZERO, DEFAULT_MAX_DELTA}

NextApply ==
    \/ \E id \in FrameIds : TreeGetOrCreateFrame(id)
    \/ \E c, p \in FrameIds, tf \in Tfs : TreeAddTransform(c, p, TIME_ZERO, tf)
    \/ /\ last.op # "apply"
       /\ \E input \in Poses, f, src \in FrameIds, t \in QueryTimes, d \in ApplyDeltas :
             TreeApply(PoseOf(0), input, f, src, t, d)

SpecApply == Init /\ [][NextApply]_vars

(***************************************************************************)
(* CoordinateFrame.GetTransformMatrix called directly on two frames of the *)
(* tree, next to apply, on trees whose frames may have a parent and no     *)
(* history (setParent), or a history and no parent (addTransform of the    *)
(* frame): a walk can find the transform of one hop and miss the transform *)
(* of the next.  Queries follow a mutation only, as above.                 *)
(***************************************************************************)
\* The times of the queries: the stamp of the transforms and a later time.
WalkTimes == {TIME_ZERO, TimeOfTick(MaxQueryTick)}

\* The record of a GetTransformMatrix call that returned r.
walked(parentFrame, childFrame, time, maxDelta, r) ==
    [op |-> "GetTransformMatrix", parentFrame |-> parentFrame,
     childFrame |-> childFrame, time |-> time, maxDelta |-> maxDelta,
     status |-> r.status, out |-> r.out]

\* CoordinateFrame.GetTransformMatrix(out, parentFrame, childFrame, time,
\* maxDelta) on two frames of the tree, out being a fresh matrix.
FrameGetTransformMatrix(parentFrame, childFrame, time, maxDelta) ==
    /\ parentFrame \in frames /\ childFrame \in frames
    /\ last' = walked(parentFrame, childFrame, time, maxDelta,
                      GetTransformMatrix(parent, transforms, parentFrame, childFrame,
                                         time, maxDelta))
    /\ UNCHANGED <<frames, parent, transforms, maxStorageTime, outLower, outUpper, clone, objects,
                   otherVars>>

\* findAncestor(id) called on a frame of the tree.
FrameFindAncestor(f, id) ==
    /\ f \in frames
    /\ last' = [op |-> "findAncestor", frame |-> f, id |-> id,
                result |-> findAncestor(parent, f, id)]
    /\ UNCHANGED <<frames, parent, transforms, maxStorageTime, outLower, outUpper, clone, objects,
                   otherVars>>

\* root() called on a frame of the tree.
FrameRoot(f) ==
    /\ f \in frames
    /\ last' = [op |-> "root", frame |-> f, result |-> root(parent, f)]
    /\ UNCHANGED <<frames, parent, transforms, maxStorageTime, outLower, outUpper, clone, objects,
                   otherVars>>

IsQuery == last.op \in {"apply", "GetTransformMatrix", "findAncestor", "root"}

NextWalk ==
    \/ \E id \in FrameIds : TreeGetOrCreateFrame(id)
    \/ \E c, p \in FrameIds : TreeAddTransform(c, p, TIME_ZERO, HalfTurn)
    \/ \E f, p \in FrameIds : FrameSetParent(f, p)
    \/ \E f \in frames : FrameAddTransform(f, TIME_ZERO, HalfTurn)
    \/ /\ ~IsQuery
       /\ \E p, c \in frames, t \in WalkTimes, d \in ApplyDeltas :
             FrameGetTransformMatrix(p, c, t, d)
    \/ /\ ~IsQuery
       /\ \E f, src \in frames, t \in WalkTimes, d \in ApplyDeltas :
             TreeApply(PoseOf(0), PoseOf(1), f, src, t, d)
    \/ /\ ~IsQuery
       /\ \E f, id \in FrameIds : FrameFindAncestor(f, id)
    \/ /\ ~IsQuery
       /\ \E f \in FrameIds : FrameRoot(f)

SpecWalk == Init /\ [][NextWalk]_vars

(***************************************************************************)
(* The three queries of a frame on the trees that addTransform builds:     *)
(* findClosestTransforms on the caller's pairs, GetTransformMatrix and     *)
(* apply.                                                                  *)
(***************************************************************************)
NextQuery ==
    \/ \E c, p \in FrameIds : TreeAddTransform(c, p, TIME_ZERO, HalfTurn)
    \/ \E f \in frames, t \in WalkTimes, d \in ApplyDeltas :
          FrameFindClosestTransforms(f, t, d)
    \/ /\ ~IsQuery
       /\ \E p, c \in frames, t \in WalkTimes, d \in ApplyDeltas :
             FrameGetTransformMatrix(p, c, t, d)
    \/ /\ ~IsQuery
       /\ \E f, src \in frames, t \in WalkTimes, d \in ApplyDeltas :
             TreeApply(PoseOf(0), PoseOf(1), f, src, t, d)

SpecQuery == Init /\ [][NextQuery]_vars

(***************************************************************************)
(* Calls that share the module's temporaries: apply and GetTransformMatrix *)
(* calls, one after the other, on the trees that addTransform builds from  *)
(* three edges.  The edges admit no cycle.                                 *)
(***************************************************************************)
ScratchEdges == {<<"base_link", "odom">>, <<"base_link", "map">>, <<"odom", "map">>}

\* The temporaries as they are now.
TempsNow ==
    [tempLower |-> tempLower, tempUpper |-> tempUpper, tempTransform |-> tempTransform,
     tempMatrix |-> tempMatrix]

\* The record of an apply call that ran on the temporaries t and returned r.
appliedTemps(frameId, srcFrameId, time, maxDelta, input, output, t, r) ==
    [op |-> "apply", frame |-> frameId, srcFrame |-> srcFrameId, time |-> time,
     maxDelta |-> maxDelta, input |-> input, outBefore |-> output, tempsBefore |-> t,
     result |-> r.result, out |-> r.out]

\* The temporaries after a call that returned r.
ScratchReturn(r) ==
    /\ tempLower' = r.temps.tempLower
    /\ tempUpper' = r.temps.tempUpper
    /\ tempTransform' = r.temps.tempTransform
    /\ tempMatrix' = r.temps.tempMatrix
    /\ UNCHANGED <<graphVars, poseVars, messages, sceneVars>>

\* The state after an apply call that returned r.
ScratchApplied(output, input, frameId, srcFrameId, time, maxDelta, r) ==
    /\ ScratchReturn(r)
    /\ last' = appliedTemps(frameId, srcFrameId, time, maxDelta, input, output, TempsNow, r)

\* frame.apply(output, input, srcFrame, time, maxDelta) on two frames of the
\* tree, with the temporaries as the calls before left them.
ScratchApply(output, input, frameId, srcFrameId, time, maxDelta) ==
    /\ frameId \in frames /\ srcFrameId \in frames
    /\ ScratchApplied(output, input, frameId, srcFrameId, time, maxDelta,
                      applyTemps(parent, transforms, TempsNow, frameId, output, input,
                                 srcFrameId, time, maxDelta))

\* The state after a GetTransformMatrix call that returned r.
ScratchWalked(parentFrame, childFrame, time, maxDelta, r) ==
    /\ ScratchReturn(r)
    /\ last' = walked(parentFrame, childFrame, time, maxDelta, r)

\* CoordinateFrame.GetTransformMatrix(out, parentFrame, childFrame, time,
\* maxDelta) with a matrix of the caller as out, on the same temporaries.
ScratchGetTransformMatrix(parentFrame, childFrame, time, maxDelta) ==
    /\ parentFrame \in frames /\ childFrame \in frames
    /\ ScratchWalked(parentFrame, childFrame, time, maxDelta,
                     GetTransformMatrixTemps(parent, transforms, TempsNow, mat4Identity,
                                             parentFrame, childFrame, time, maxDelta))

NextScratch ==
    \/ \E e \in ScratchEdges, tf \in Tfs : TreeAddTransform(e[1], e[2], TIME_ZERO, tf)
    \/ \E f, src \in frames, t \in WalkTimes, d \in ApplyDeltas :
          ScratchApply(PoseOf(0), PoseOf(1), f, src, t, d)
    \/ \E p, c \in frames, t \in WalkTimes :
          ScratchGetTransformMatrix(p, c, t, DEFAULT_MAX_DELTA)

SpecScratch == Init /\ [][NextScratch]_vars

(***************************************************************************)
(* The pose objects of a caller of apply: an out pose and an input pose,   *)
(* each made with a position and an orientation object of its own, given   *)
(* to apply on the chain base_link -> odom -> map; the caller also writes  *)
(* into the position and the orientation of out.                           *)
(***************************************************************************)
AliasEdges == {<<"base_link", "odom">>, <<"odom", "map">>}

\* The value of a pose of the caller.
PoseValue(pose) ==
    [position |-> points[pose.position], orientation |-> points[pose.orientation]]

\* Transform.toPose(out): the coordinates are written into the position and
\* the orientation object that out holds.
toPoseInPlace(out, pose) ==
    [id \in PointIds |->
        IF id = out.position THEN pose.position
        ELSE IF id = out.orientation THEN pose.orientation
        ELSE points[id]]

\* The objects after frame.apply returned r: the identity case assigns the
\* objects of input to the fields of out, the other cases write out through
\* Transform.toPose.
aliasApplied(identity, r) ==
    IF identity
    THEN [poses |-> [poses EXCEPT !.out = poses.input], points |-> points]
    ELSE [poses |-> poses, points |-> toPoseInPlace(poses.out, r.out)]

\* The state after an apply call on the caller's poses that returned r.
AliasReturn(frameId, srcFrameId, r) ==
    /\ poses' = aliasApplied(frameId = srcFrameId, r).poses
    /\ points' = aliasApplied(frameId = srcFrameId, r).points
    /\ last' = [op |-> "apply", frame |-> frameId, srcFrame |-> srcFrameId,
                inputBefore |-> PoseValue(poses.input), result |-> r.result]
    /\ UNCHANGED <<graphVars, tempVars, messages, sceneVars>>

\* frame.apply(out, input, srcFrame, time) on the caller's poses, as long as
\* the input pose holds one of the values the caller gives to a pose.
AliasApply(frameId, srcFrameId) ==
    /\ frameId \in frames /\ srcFrameId \in frames
    /\ PoseValue(poses.input) \in Poses
    /\ AliasReturn(frameId, srcFrameId,
                   apply(parent, transforms, frameId, PoseValue(poses.out),
                         PoseValue(poses.input), srcFrameId, TIME_ZERO,
                         DEFAULT_MAX_DELTA))

\* The caller writes the coordinates of a pose into out.position and
\* out.orientation.
CallerWrite(pose) ==
    /\ points' = toPoseInPlace(poses.out, pose)
    /\ last' = [op |-> "write", inputBefore |-> PoseValue(poses.input), pose |-> pose]
    /\ UNCHANGED <<graphVars, tempVars, poses, messages, sceneVars>>

NextAlias ==
    \/ \E e \in AliasEdges : TreeAddTransform(e[1], e[2], TIME_ZERO, HalfTurn)
    \/ \E f, src \in frames : AliasApply(f, src)
    \/ \E pose \in Poses : CallerWrite(pose)

SpecAlias == Init /\ [][NextAlias]_vars

(***************************************************************************)
(* filterOutSupersededMessages(messages, datatype) on an array of at most  *)
(* MaxMessages messages.  A message is the part that the function reads:   *)
(* the lifetime of a marker (undefined, or a duration, which is an object  *)
(* and so counts as present when it is zero too) and the actions of the    *)
(* markers of a marker array (none when the message has no markers).       *)
(***************************************************************************)
MaxMessages == 3

MARKER_ARRAY_DATATYPES ==
    {"visualization_msgs/MarkerArray", "visualization_msgs/msg/MarkerArray",
     "ros.visualization_msgs.MarkerArray"}

Datatypes == MARKER_ARRAY_DATATYPES \cup {"visualization_msgs/Marker"}

\* The lifetime { sec: 0, nsec: 0 } of a marker.
ZERO_LIFETIME == "{sec: 0, nsec: 0}"

Lifetimes == {None, ZERO_LIFETIME, "{sec: 1, nsec: 0}"}

Messages == [lifetime : Lifetimes, markers : {<<>>, <<0>>, <<3>>}]

\* markers[0]?.action === 3
isDeleteAll(message) == Len(message.markers) > 0 /\ message.markers[1] = 3

MessageArrays == UNION {[1..n -> Messages] : n \in 0..MaxMessages}

\* Array.prototype.reverse
reverse(array) == [i \in 1..Len(array) |-> array[Len(array) + 1 - i]]

\* Array.prototype.findIndex for "the first marker has action 3", counted
\* from 0; -1 when no message matches.
findDeleteAll(array) ==
    IF \E i \in 1..Len(array) : isDeleteAll(array[i])
    THEN (CHOOSE i \in 1..Len(array) :
             /\ isDeleteAll(array[i])
             /\ \A j \in 1..(i - 1) : ~isDeleteAll(array[j])) - 1
    ELSE 0 - 1

\* A variant of filterMarkerArray that leaves out the message found.
filterMarkerArrayAfter(array, reversedMessages) ==
    IF findDeleteAll(reversedMessages) # 0 - 1
    THEN reverse(SubSeq(reversedMessages, 1, findDeleteAll(reversedMessages)))
    ELSE array

\* The marker array case: the messages from the latest one that begins with
\* a delete-all marker on.
filterMarkerArray(array, reversedMessages) ==
    IF findDeleteAll(reversedMessages) # 0 - 1
    THEN reverse(SubSeq(reversedMessages, 1, findDeleteAll(reversedMessages) + 1))
    ELSE array

\* !!message.lifetime
hasLifetime(message) == message.lifetime # None

RECURSIVE filterLoop(_, _, _, _)
\* The loop over reversedMessages from the index i on.
filterLoop(reversedMessages, i, hasSeenNonLifetimeMessage, filteredMessages) ==
    IF i > Len(reversedMessages) THEN filteredMessages
    ELSE IF hasLifetime(reversedMessages[i])
    THEN filterLoop(reversedMessages, i + 1, hasSeenNonLifetimeMessage,
                    <<reversedMessages[i]>> \o filteredMessages)
    ELSE IF ~hasSeenNonLifetimeMessage
    THEN filterLoop(reversedMessages, i + 1, TRUE,
                    <<reversedMessages[i]>> \o filteredMessages)
    ELSE filterLoop(reversedMessages, i + 1, hasSeenNonLifetimeMessage, filteredMessages)

\* A variant of filterLifetime that keeps the first message without lifetime.
filterLifetimeFirst(array, reversedMessages) ==
    reverse(filterLoop(array, 1, FALSE, <<>>))

\* The other datatypes: the messages with a lifetime and the last one
\* without.
filterLifetime(array, reversedMessages) == filterLoop(reversedMessages, 1, FALSE, <<>>)

\* A variant that reverses the array it is given.
filterOutSupersededMessagesInPlace(array, datatype) ==
    [messages |-> reverse(array),
     result |-> IF datatype \in MARKER_ARRAY_DATATYPES
                THEN filterMarkerArray(reverse(array), reverse(array))
                ELSE filterLifetime(reverse(array), reverse(array))]

\* filterOutSupersededMessages(messages, datatype): the array it returns, and
\* the array it was given after the call.
filterOutSupersededMessages(array, datatype) ==
    [messages |-> array,
     result |-> IF datatype \in MARKER_ARRAY_DATATYPES
                THEN filterMarkerArray(array, reverse(array))
                ELSE filterLifetime(array, reverse(array))]

InitFilter ==
    /\ frames = {}
    /\ parent = [f \in FrameIds |-> None]
    /\ transforms = [f \in FrameIds |-> EmptyTree]
    /\ maxStorageTime = [f \in FrameIds |-> DEFAULT_MAX_STORAGE_TIME]
    /\ outLower = <<TIME_ZERO, Identity>>
    /\ outUpper = <<TIME_ZERO, Identity>>
    /\ clone = NoClone
    /\ objects = NewObjects
    /\ InitTemps /\ InitPoses /\ InitScene
    /\ messages \in MessageArrays
    /\ last = [op |-> "new"]

\* The state after a call that returned r.
Filtered(datatype, r) ==
    /\ messages' = r.messages
    /\ last' = [op |-> "filterOutSupersededMessages", datatype |-> datatype,
                before |-> messages, result |-> r.result]
    /\ UNCHANGED <<graphVars, tempVars, poseVars, sceneVars>>

Filter(datatype) == Filtered(datatype, filterOutSupersededMessages(messages, datatype))

NextFilter == \E datatype \in Datatypes : Filter(datatype)

SpecFilter == InitFilter /\ [][NextFilter]_vars

(***************************************************************************)
(* SceneBuilder: the scene is given a transform tree and a root frame id   *)
(* (setTransforms), topics (setTopics), the enabled namespaces, and the    *)
(* markers of a topic (_consumeTopic); renderMarkers computes the pose of  *)
(* every collected marker in the root frame and reports the frames it had  *)
(* no pose for in errors.topicsMissingTransforms.  The tree of the scene   *)
(* is the tree of this module: frames, parent, transforms.  collectors     *)
(* maps the topics that have a MessageCollector to the set of the markers  *)
(* it holds; selectedNamespacesByTopic is <<>> while undefined, and a one  *)
(* element sequence that holds the map once it is set.                     *)
(***************************************************************************)
\* The number of markers that the collectors of the scene hold together.
MaxMarkers == 2

\* Object.values(topicsByName) follows the order of the names (setTopics).
TopicOrder == <<"/markers", "/poses">>

\* The root frame id given to the scene.
ROOT_FRAME == "map"

\* The markers: a namespace (the empty one included), the frame of the
\* header, and frame_locked, which every marker here has set; the stamp of
\* every header is TIME_ZERO.
Markers == [ns : {"", "a"}, frame_id : {"odom", "base_link"}, frame_locked : {TRUE}]

\* The values given to setSelectedNamespacesByTopic.
Selections == {[t \in {"/markers"} |-> {}]}

\* The values given to setEnabledNamespaces, as {topic, name} pairs.
NamespaceLists == {{}, {<<"/markers", "a">>}}

\* The number of markers in the collectors.
collected ==
    LET held(t) == IF t \in DOMAIN collectors THEN Cardinality(collectors[t]) ELSE 0
    IN  held("/markers") + held("/poses")

\* A renderMarkers call that did not return leaves nothing to run.
SceneHung == last.op = "renderMarkers" /\ last.result # "returned"

\* SceneBuilder.setTransforms(transforms, rootTransformID)
SetTransforms(id) ==
    /\ ~SceneHung
    /\ sceneTransforms' = "transforms"
    /\ rootTransformID' = id
    /\ last' = [op |-> "setTransforms"]
    /\ UNCHANGED <<graphVars, tempVars, poseVars, messages, topicsByName, collectors,
                   selectedNamespacesByTopic, enabledNamespaces, topicsMissingTransforms>>

\* SceneBuilder.setTopics(topics): the collectors of the topics that are
\* no longer there are deleted.
SetTopics(topics) ==
    /\ ~SceneHung
    /\ topicsByName' = topics
    /\ collectors' = [t \in DOMAIN collectors \ (topicsByName \ topics) |-> collectors[t]]
    /\ last' = [op |-> "setTopics"]
    /\ UNCHANGED <<graphVars, tempVars, poseVars, messages, selectedNamespacesByTopic,
                   enabledNamespaces, sceneTransforms, rootTransformID,
                   topicsMissingTransforms>>

\* SceneBuilder.setEnabledNamespaces(namespaces)
SetEnabledNamespaces(namespaces) ==
    /\ ~SceneHung
    /\ enabledNamespaces' = namespaces
    /\ last' = [op |-> "setEnabledNamespaces"]
    /\ UNCHANGED <<graphVars, tempVars, poseVars, messages, topicsByName, collectors,
                   selectedNamespacesByTopic, sceneTransforms, rootTransformID,
                   topicsMissingTransforms>>

\* SceneBuilder.setSelectedNamespacesByTopic(selectedNamespacesByTopic)
SetSelectedNamespacesByTopic(selected) ==
    /\ ~SceneHung
    /\ selectedNamespacesByTopic' = <<selected>>
    /\ last' = [op |-> "setSelectedNamespacesByTopic"]
    /\ UNCHANGED <<graphVars, tempVars, poseVars, messages, topicsByName, collectors,
                   enabledNamespaces, sceneTransforms, rootTransformID,
                   topicsMissingTransforms>>

\* Map.delete(topic)
mapDelete(map, topic) == [t \in DOMAIN map \ {topic} |-> map[t]]

\* SceneBuilder._consumeTopic(topic) when the frame has messages of the
\* topic: the error of the topic is deleted, the topic gets a collector
\* when it has none, and the markers of the messages are collected when
\* the topic has a datatype, that is, when it is one of topicsByName.
ConsumeTopic(topic, markers) ==
    /\ ~SceneHung
    /\ collected + Cardinality(markers) <= MaxMarkers
    /\ topicsMissingTransforms' = mapDelete(topicsMissingTransforms, topic)
    /\ collectors' = [t \in DOMAIN collectors \cup {topic} |->
                         IF t = topic
                         THEN (IF t \in DOMAIN collectors THEN collectors[t] ELSE {})
                              \cup (IF topic \in topicsByName THEN markers ELSE {})
                         ELSE collectors[t]]
    /\ last' = [op |-> "_consumeTopic"]
    /\ UNCHANGED <<graphVars, tempVars, poseVars, messages, topicsByName,
                   selectedNamespacesByTopic, enabledNamespaces, sceneTransforms,
                   rootTransformID>>

\* SceneBuilder.namespaceIsEnabled(topic, name)
namespaceIsEnabled(topic, name) ==
    IF selectedNamespacesByTopic # <<>>
    THEN IF topic \in DOMAIN selectedNamespacesByTopic[1]
         THEN name \in selectedNamespacesByTopic[1][topic]
         ELSE TRUE
    ELSE <<topic, name>> \in enabledNamespaces

\* computeMarkerPose(marker, transforms, rootFrameId, currentTime): the
\* result of apply, "undefined" when one of the frames is not in the tree.
computeMarkerPose(marker, rootFrameId, currentTime) ==
    IF marker.frame_id \notin frames \/ rootFrameId \notin frames
    THEN "undefined"
    ELSE apply(parent, transforms, rootFrameId, PoseOf(0), PoseOf(1), marker.frame_id,
               IF marker.frame_locked THEN currentTime ELSE TIME_ZERO,
               DEFAULT_MAX_DELTA).result

\* The markers of a topic that renderMarkers computes a pose for.
rendered(topic) ==
    {marker \in collectors[topic] :
        marker.ns # "" => namespaceIsEnabled(topic, marker.ns)}

\* The pose of every rendered marker of a topic.
markerPoses(topic, rootFrameId, time) ==
    [marker \in rendered(topic) |-> computeMarkerPose(marker, rootFrameId, time)]

\* SceneBuilder._addError(map, topic) followed by the loop that adds the
\* frame ids to the entry.
addError(map, topic, frameIds) ==
    [t \in DOMAIN map \cup {topic} |->
        IF t = topic
        THEN (IF t \in DOMAIN map THEN map[t] ELSE {}) \cup frameIds
        ELSE map[t]]

\* The body of the loop of renderMarkers for one topic, given the poses of
\* its markers: missingTfFrameIds gets the frame of every marker without a
\* pose, and the topic gets an error when there is one.
renderTopic(map, topic, computed) ==
    LET missingTfFrameIds ==
            {marker.frame_id : marker \in {m \in DOMAIN computed : computed[m] = "undefined"}}
    IN  IF \E m \in DOMAIN computed : computed[m] \notin {"out", "undefined"}
        THEN [result |-> Hang, map |-> map]
        ELSE [result |-> "returned",
              map |-> IF missingTfFrameIds # {}
                      THEN addError(map, topic, missingTfFrameIds)
                      ELSE map]

\* The loop of renderMarkers from the i-th topic on.
RECURSIVE renderTopics(_, _, _, _)
renderTopics(map, i, rootFrameId, time) ==
    IF i > Len(TopicOrder)
    THEN [result |-> "returned", map |-> map]
    ELSE IF TopicOrder[i] \notin topicsByName \/ TopicOrder[i] \notin DOMAIN collectors
         THEN renderTopics(map, i + 1, rootFrameId, time)
         ELSE LET r == renderTopic(map, TopicOrder[i],
                                   markerPoses(TopicOrder[i], rootFrameId, time))
              IN  IF r.result = "returned"
                  THEN renderTopics(r.map, i + 1, rootFrameId, time)
                  ELSE r

\* renderMarkers without the clear() of its first statement.
renderMarkersKept(map, rootFrameId, time) == renderTopics(map, 1, rootFrameId, time)

\* SceneBuilder.renderMarkers(add, time) past its guard: the result and
\* errors.topicsMissingTransforms.
renderMarkers(map, rootFrameId, time) ==
    renderTopics([t \in {} |-> {}], 1, rootFrameId, time)

\* The state after a renderMarkers call that ended as r.
Rendered(time, r) ==
    /\ topicsMissingTransforms' = r.map
    /\ last' = [op |-> "renderMarkers", time |-> time, result |-> r.result,
                before |-> topicsMissingTransforms]
    /\ UNCHANGED <<graphVars, tempVars, poseVars, messages, topicsByName, collectors,
                   selectedNamespacesByTopic, enabledNamespaces, sceneTransforms,
                   rootTransformID>>

\* SceneBuilder.renderMarkers(add, time)
RenderMarkers(time) ==
    /\ ~SceneHung
    /\ IF sceneTransforms = None \/ rootTransformID \in {None, ""}
       THEN /\ last' = [op |-> "renderMarkers", time |-> time, result |-> "returned",
                        before |-> topicsMissingTransforms]
            /\ UNCHANGED <<graphVars, otherVars>>
       ELSE Rendered(time, renderMarkers(topicsMissingTransforms, rootTransformID, time))

NextScene ==
    \/ /\ ~SceneHung
       /\ TreeAddTransform("odom", ROOT_FRAME, TIME_ZERO, HalfTurn)
    \/ /\ ~SceneHung
       /\ TreeAddTransform("base_link", "base_link", TIME_ZERO, HalfTurn)
    \/ SetTransforms(ROOT_FRAME)
    \/ \E topics \in SUBSET TopicNames : SetTopics(topics)
    \/ \E namespaces \in NamespaceLists : SetEnabledNamespaces(namespaces)
    \/ \E selected \in Selections : SetSelectedNamespacesByTopic(selected)
    \/ \E topic \in TopicNames, markers \in {{}} \cup {{m} : m \in Markers} :
          ConsumeTopic(topic, markers)
    \/ \E time \in WalkTimes : RenderMarkers(time)

SpecScene == Init /\ [][NextScene]_vars

(***************************************************************************)
(* The tree of the test "point-in-time transformation": base_link -> odom  *)
(* -> map, with stamps at TIME_ZERO.  The transform of an edge is the      *)
(* identity or the transform the test then gives it; a pose is sent from a *)
(* frame to another one and, when that succeeded, back.                    *)
(***************************************************************************)
\* Transform([1, 2, 3], [0, 0, 0, 1])
odom_T_baseLink == [position |-> <<1, 2, 3>>, rotation |-> 0]

\* Transform([10, 20, 30], [0, 0, 1, 0]): 180 degrees around the z axis
map_T_odom == [position |-> <<10, 20, 30>>, rotation |-> 2]

\* The record of the apply call that sent the result of the last apply call
\* back to where it came from, and returned r.
appliedBack(r) ==
    [op |-> "applyBack", frame |-> last.srcFrame, srcFrame |-> last.frame,
     time |-> last.time, maxDelta |-> last.maxDelta, original |-> last.input,
     input |-> last.out, result |-> r.result, out |-> r.out]

\* TransformTree.apply(output, input, frameId, srcFrameId, time, maxDelta)
\* after an apply call that returned its out pose, with that pose as input,
\* the two frames exchanged and the same time and maxDelta.
TreeApplyBack(output) ==
    /\ last.op = "apply"
    /\ last.result = "out"
    /\ last' = appliedBack(apply(parent, transforms, last.srcFrame, output, last.out,
                                 last.frame, last.time, last.maxDelta))
    /\ UNCHANGED <<frames, parent, transforms, maxStorageTime, outLower, outUpper, clone, objects,
                   otherVars>>

NextFixture ==
    \/ \E tf \in {Identity, odom_T_baseLink} :
          TreeAddTransform("base_link", "odom", TIME_ZERO, tf)
    \/ \E tf \in {Identity, map_T_odom} :
          TreeAddTransform("odom", "map", TIME_ZERO, tf)
    \/ /\ last.op \notin {"apply", "applyBack"}
       /\ \E input \in Poses, f, src \in FrameIds :
             TreeApply(PoseOf(0), input, f, src, TIME_ZERO, DEFAULT_MAX_DELTA)
    \/ TreeApplyBack(PoseOf(0))

SpecFixture == Init /\ [][NextFixture]_vars

(***************************************************************************)
(* The first half of the test "point-in-time transformation": the caller   *)
(* makes two Transform objects, gives them to addTransform, and then sets  *)
(* their position and rotation in place.  The histories hold references to *)
(* the objects, and apply reads the objects through them.                  *)
(***************************************************************************)
\* The addTransform calls of the test: frame, parent, object.
RefEdges == {<<"base_link", "odom", "odom_T_baseLink">>, <<"odom", "map", "map_T_odom">>}

\* The histories as apply reads them.
Resolved ==
    [f \in FrameIds |-> [k \in DOMAIN transforms[f] |-> ValueOf(transforms[f][k])]]

\* tree.addTransform(frame, parent, TIME_ZERO, object)
RefAddTransform(e) == TreeAddTransform(e[1], e[2], TIME_ZERO, [ref |-> e[3]])

\* object.setPosition(...) and object.setRotation(...) on an object that was
\* given to addTransform: the object takes the value.
TransformSet(e, value) ==
    /\ transforms[e[1]] # EmptyTree
    /\ objects[e[3]] # value
    /\ objects' = [objects EXCEPT ![e[3]] = value]
    /\ last' = [op |-> "Transform.set", object |-> e[3], value |-> value]
    /\ UNCHANGED <<frames, parent, transforms, maxStorageTime, outLower, outUpper, clone,
                   otherVars>>

\* TransformTree.apply on histories that hold references.
RefApply(output, input, frameId, srcFrameId, time, maxDelta) ==
    /\ last' = applied(frameId, srcFrameId, time, maxDelta, input, output,
                       IF frameId \notin frames \/ srcFrameId \notin frames
                       THEN [result |-> "undefined", out |-> output]
                       ELSE apply(parent, Resolved, frameId, output, input, srcFrameId,
                                  time, maxDelta))
    /\ UNCHANGED <<frames, parent, transforms, maxStorageTime, outLower, outUpper, clone,
                   objects, otherVars>>

NextRef ==
    \/ \E e \in RefEdges : RefAddTransform(e)
    \/ \E e \in RefEdges, value \in {Identity, odom_T_baseLink, map_T_odom} :
          TransformSet(e, value)
    \/ /\ last.op # "apply"
       /\ \E f, src \in FrameIds :
             RefApply(PoseOf(0), PoseOf(0), f, src, TIME_ZERO, DEFAULT_MAX_DELTA)

SpecRef == Init /\ [][NextRef]_vars

(***************************************************************************)
(* TransformTree.Clone: a tree and the tree Clone returned for it, both    *)
(* used to register frames and to add transforms.  The _frames of the      *)
(* clone is the registry of the original (shared) or a registry of its own.*)
(***************************************************************************)
\* A variant of Clone that gives the new tree a copy of the registry.
CloneCopy(registry) == [made |-> TRUE, shared |-> FALSE, own |-> registry]

\* TransformTree.Clone(tree): the new tree has the _frames of tree.
Clone(registry) == [made |-> TRUE, shared |-> TRUE, own |-> {}]

\* TransformTree.frames() through a handle: "tree" or "clone".
framesOf(handle) == IF handle = "tree" \/ clone.shared THEN frames ELSE clone.own

\* TransformTree.hasFrame(id) through a handle.
hasFrame(handle, id) == id \in framesOf(handle)

\* TransformTree.frame(id) through a handle.
frame(handle, id) == IF id \in framesOf(handle) THEN id ELSE None

TreeClone ==
    /\ ~clone.made
    /\ clone' = Clone(frames)
    /\ last' = [op |-> "Clone"]
    /\ UNCHANGED <<frames, parent, transforms, maxStorageTime, outLower, outUpper, objects,
                   otherVars>>

\* The registries after ids were registered through the clone.
CloneRegister(ids) ==
    /\ clone.made
    /\ frames' = IF clone.shared THEN frames \cup ids ELSE frames
    /\ clone' = IF clone.shared THEN clone ELSE [clone EXCEPT !.own = @ \cup ids]

\* getOrCreateFrame(id) called on the clone.
CloneGetOrCreateFrame(id) ==
    /\ CloneRegister({id})
    /\ Construct({id})
    /\ last' = [op |-> "clone.getOrCreateFrame", frame |-> id,
                existed |-> hasFrame("clone", id)]
    /\ UNCHANGED <<parent, transforms, outLower, outUpper, objects, otherVars>>

\* addTransform(frameId, parentFrameId, time, transform) called on the clone.
CloneAddTransform(frameId, parentFrameId, time, transform) ==
    LET curParentFrame == parent[frameId]
        link == IF curParentFrame = None \/ curParentFrame # parentFrameId
                THEN setParent(curParentFrame, parentFrameId)
                ELSE [threw |-> FALSE, parent |-> curParentFrame]
        created == IF curParentFrame = None \/ curParentFrame # parentFrameId
                   THEN {frameId, parentFrameId} ELSE {frameId}
    IN  /\ CloneRegister(created)
        /\ Construct(created)
        /\ parent' = [parent EXCEPT ![frameId] = link.parent]
        /\ transforms' = IF link.threw THEN transforms
                         ELSE [transforms EXCEPT ![frameId] =
                                 addTransform(@, maxStorageTime[frameId], time, transform)]
        /\ last' = [op |-> "clone.addTransform", frame |-> frameId,
                    parentArg |-> parentFrameId, threw |-> link.threw,
                    existed |-> hasFrame("clone", frameId)]
        /\ UNCHANGED <<outLower, outUpper, objects, otherVars>>

NextClone ==
    \/ TreeClone
    \/ \E id \in FrameIds : TreeGetOrCreateFrame(id)
    \/ \E c, p \in FrameIds, tf \in Tfs : TreeAddTransform(c, p, TIME_ZERO, tf)
    \/ \E id \in FrameIds : CloneGetOrCreateFrame(id)
    \/ \E c, p \in FrameIds, tf \in Tfs : CloneAddTransform(c, p, TIME_ZERO, tf)

SpecClone == Init /\ [][NextClone]_vars

(***************************************************************************)
(* The registry under registrations, insertions and the read operations    *)
(* hasFrame, frame, frames and apply, asked about registered ids, about an *)
(* id that is not registered and about the empty string.                   *)
(***************************************************************************)
QueryIds == FrameIds \cup {""}

\* tree.hasFrame(id)
TreeHasFrame(id) ==
    /\ last' = [op |-> "hasFrame", id |-> id, result |-> hasFrame("tree", id)]
    /\ UNCHANGED <<frames, parent, transforms, maxStorageTime, outLower, outUpper, clone,
                   objects, otherVars>>

\* tree.frame(id)
TreeFrame(id) ==
    /\ last' = [op |-> "frame", id |-> id, result |-> frame("tree", id)]
    /\ UNCHANGED <<frames, parent, transforms, maxStorageTime, outLower, outUpper, clone,
                   objects, otherVars>>

\* tree.frames()
TreeFrames ==
    /\ last' = [op |-> "frames", result |-> framesOf("tree")]
    /\ UNCHANGED <<frames, parent, transforms, maxStorageTime, outLower, outUpper, clone,
                   objects, otherVars>>

IsRead == last.op \in {"hasFrame", "frame", "frames", "apply"}

NextRegistry ==
    \/ \E id \in FrameIds : TreeGetOrCreateFrame(id)
    \/ \E c, p \in FrameIds : TreeAddTransform(c, p, TIME_ZERO, HalfTurn)
    \/ ~IsRead /\ \E id \in QueryIds : TreeHasFrame(id)
    \/ ~IsRead /\ \E id \in QueryIds : TreeFrame(id)
    \/ ~IsRead /\ TreeFrames
    \/ /\ ~IsRead
       /\ \E f, src \in QueryIds :
             TreeApply(PoseOf(0), PoseOf(0), f, src, TIME_ZERO, DEFAULT_MAX_DELTA)

SpecRegistry == Init /\ [][NextRegistry]_vars

(***************************************************************************)
(* Properties of a single frame's history (SpecFrame).                     *)
(***************************************************************************)
IsAdd == last.op = "CoordinateFrame.addTransform"
IsFind == last.op = "findClosestTransforms"

\* The history the last call ran on or produced.
History == transforms[TheFrame]

Evicted == {k \in (DOMAIN last.before) \cup {last.time} : k \notin DOMAIN History}

\* The entry of the history stored at a key.
Entry(k) == <<k, History[k]>>

\* C3: after a CoordinateFrame.addTransform call the history is not empty, and
\* the entry with the greatest timestamp among the previous entries and the
\* inserted one is still stored, with its transform, whatever the retention
\* window is (negative windows included).
C3_RetentionKeepsNewest ==
    IsAdd =>
        LET all == (DOMAIN last.before) \cup {last.time}
        IN  /\ size(History) >= 1
            /\ \A k \in all :
                 (\A j \in all : TickOf(j) <= TickOf(k)) =>
                     /\ k \in DOMAIN History
                     /\ History[k] = IF k = last.time THEN last.transform
                                     ELSE last.before[k]

\* An insertion evicted an older entry.
C3_Witness == IsAdd /\ Evicted # {} /\ last.time \in DOMAIN History

\* C4: right after a CoordinateFrame.addTransform call on a frame whose
\* maxStorageTime is not negative, the newest and the oldest timestamp of the
\* history differ by at most maxStorageTime.
C4_RetentionBound ==
    (IsAdd /\ TickOf(maxStorageTime[TheFrame]) >= 0) =>
        \A a, b \in DOMAIN History :
            TickOf(a) - TickOf(b) <= TickOf(maxStorageTime[TheFrame])

\* An insertion into a frame with a positive window evicted two entries at once.
C4_Witness ==
    /\ IsAdd
    /\ TickOf(maxStorageTime[TheFrame]) > 0
    /\ Cardinality(Evicted) >= 2

\* C5: a findClosestTransforms query at the timestamp of a stored entry
\* returns true with outLower and outUpper both set to that entry, for every
\* maxDelta >= 0.
C5_BracketExact ==
    (IsFind /\ last.time \in DOMAIN History) =>
        /\ last.found
        /\ outLower = Entry(last.time)
        /\ outUpper = Entry(last.time)

\* An exact query at an entry that has stored entries on both sides.
C5_Witness ==
    /\ IsFind
    /\ last.time \in DOMAIN History
    /\ \E a, b \in DOMAIN History : TickOf(a) < TickOf(last.time) /\ TickOf(last.time) < TickOf(b)

\* C6: a query strictly between two adjacent stored timestamps returns true
\* with outLower the entry before and outUpper the entry after the query time,
\* for every maxDelta.
C6_BracketInterior ==
    IsFind =>
        \A a, b \in DOMAIN History :
            ( /\ TickOf(a) < TickOf(last.time)
              /\ TickOf(last.time) < TickOf(b)
              /\ \A k \in DOMAIN History : ~(TickOf(a) < TickOf(k) /\ TickOf(k) < TickOf(b)) )
            => /\ last.found
               /\ outLower = Entry(a)
               /\ outUpper = Entry(b)

\* An interior query further from both neighbours than maxDelta, with a
\* second entry after the query time.
C6_Witness ==
    /\ IsFind
    /\ TickOf(last.maxDelta) = 0
    /\ \E a, b, c \in DOMAIN History :
         /\ TickOf(a) < TickOf(last.time)
         /\ TickOf(last.time) < TickOf(b)
         /\ TickOf(b) < TickOf(c)
    /\ last.found
    /\ outLower # outUpper

\* C7 (as claimed): on a history of at least two entries with oldest timestamp
\* t1, a query at q < t1 returns true with both ends the entry at t1 if and
\* only if t1 - q <= maxDelta, and false otherwise.
C7_BracketBefore ==
    (IsFind /\ size(History) >= 2 /\ TickOf(last.time) < TickOf(minKey(History))) =>
        IF TickOf(minKey(History)) - TickOf(last.time) <= TickOf(last.maxDelta)
        THEN /\ last.found
             /\ outLower = Entry(minKey(History))
             /\ outUpper = Entry(minKey(History))
        ELSE ~last.found

\* C8: on a history of at least two entries with newest timestamp tn, a query
\* at q > tn returns true with both ends the entry at tn if and only if
\* q - tn <= maxDelta, and false otherwise.
C8_BracketAfter ==
    (IsFind /\ size(History) >= 2 /\ TickOf(last.time) > TickOf(maxKey(History))) =>
        IF TickOf(last.time) - TickOf(maxKey(History)) <= TickOf(last.maxDelta)
        THEN /\ last.found
             /\ outLower = Entry(maxKey(History))
             /\ outUpper = Entry(maxKey(History))
        ELSE ~last.found

\* A query after the newest entry, exactly maxDelta away, by a non-whole
\* number of seconds.
C8_Witness ==
    /\ IsFind
    /\ size(History) >= 2
    /\ TickOf(last.time) - TickOf(maxKey(History)) = TickOf(last.maxDelta)
    /\ TickOf(last.maxDelta) % 2 = 1
    /\ last.found

\* C9 (as claimed): a query on an empty history returns false; on a history of
\* exactly one entry at te it returns true with both ends that entry if and
\* only if |q - te| <= maxDelta.
C9_BracketSingle ==
    IsFind =>
        /\ size(History) = 0 => ~last.found
        /\ size(History) = 1 =>
             IF Abs(TickOf(last.time) - TickOf(maxKey(History))) <= TickOf(last.maxDelta)
             THEN /\ last.found
                  /\ outLower = Entry(maxKey(History))
                  /\ outUpper = Entry(maxKey(History))
             ELSE ~last.found

\* C16: a CoordinateFrame.addTransform call at a timestamp already stored
\* leaves the number of entries as it was and stores the given transform at
\* that timestamp; in every state no two keys of the history compare equal.
C16_LastWriterWins ==
    /\ \A a, b \in DOMAIN History : compare(a, b) = 0 => a = b
    /\ (IsAdd /\ last.time \in DOMAIN last.before) =>
          /\ size(History) = size(last.before)
          /\ DOMAIN History = DOMAIN last.before
          /\ History[last.time] = last.transform
          /\ \A k \in (DOMAIN History) \ {last.time} : History[k] = last.before[k]

\* An insertion at a stored timestamp, not the newest one, of a transform
\* other than the stored one.
C16_Witness ==
    /\ IsAdd
    /\ last.time \in DOMAIN last.before
    /\ last.before[last.time] # last.transform
    /\ size(last.before) >= 2
    /\ last.time # maxKey(last.before)
    /\ History[last.time] = last.transform

(***************************************************************************)
(* Properties of the tree (Spec) and of pose queries (SpecApply).          *)
(***************************************************************************)
\* C1: once the parent of a frame is some frame P, it is P after every step of
\* getOrCreateFrame, addTransform, addTransformMessage, setParent and apply.
C1_ParentImmutable ==
    [][\A f \in FrameIds : parent[f] # None => parent'[f] = parent[f]]_vars

\* A setParent call with another frame on a frame that has a parent, which
\* keeps its parent.
C1_Witness ==
    /\ last.op = "setParent"
    /\ last.parentBefore # None
    /\ last.parentArg # last.parentBefore
    /\ parent[last.frame] = last.parentBefore

\* C2: addTransform(child, newParent, time, transform) on a child whose parent
\* is a frame other than newParent throws, and the parent and the history of
\* child are what they were before the call.
C2_ReparentRejected ==
    (last.op = "addTransform" /\ last.parentBefore \notin {None, last.parentArg}) =>
        /\ last.threw
        /\ parent[last.frame] = last.parentBefore
        /\ transforms[last.frame] = last.before

\* A rejected addTransform whose transform differs from the one stored at its
\* timestamp.
C2_Witness ==
    /\ last.op = "addTransform"
    /\ last.parentBefore \notin {None, last.parentArg}
    /\ last.time \in DOMAIN last.before
    /\ last.before[last.time] # last.transform
    /\ last.threw

\* The last call was TransformTree.addTransform or addTransformMessage.
IsTreeAdd == last.op \in {"addTransform", "addTransformMessage"}

C18_GetOrCreateFrame ==
    [][last'.op = "getOrCreateFrame" =>
         /\ last'.frame \in frames'
         /\ parent' = parent
         /\ transforms' = transforms
         /\ \A f \in FrameIds \ {last'.frame} : maxStorageTime'[f] = maxStorageTime[f]
         /\ IF last'.frame \in frames
            THEN /\ frames' = frames
                 /\ maxStorageTime' = maxStorageTime
            ELSE /\ frames' = frames \cup {last'.frame}
                 /\ Cardinality(frames') = Cardinality(frames) + 1
                 /\ parent'[last'.frame] = None
                 /\ transforms'[last'.frame] = EmptyTree
                 /\ maxStorageTime'[last'.frame] = [sec |-> 10, nsec |-> 0]]_vars

\* A getOrCreateFrame call that registered a frame in a tree where another
\* frame has a parent.
C18_Witness ==
    /\ last.op = "getOrCreateFrame"
    /\ ~last.existed
    /\ last.frame \in frames
    /\ parent[last.frame] = None
    /\ \E f \in frames : parent[f] \notin {None, f, last.frame}

\* C19: after an addTransform(child, parent, time, transform) or
\* addTransformMessage call that did not throw, the registered ids are the ids
\* registered before the call, child and parent, the parent of child is
\* parent, and every other frame has the parent it had.
C19_AddRegistersBoth ==
    [][(last'.op \in {"addTransform", "addTransformMessage"} /\ ~last'.threw) =>
         /\ frames' = frames \cup {last'.frame, last'.parentArg}
         /\ parent'[last'.frame] = last'.parentArg
         /\ \A f \in FrameIds \ {last'.frame} : parent'[f] = parent[f]]_vars

\* An addTransform call that linked a frame without history to its parent, in
\* a tree that holds these two frames only.
C19_Witness ==
    /\ last.op = "addTransform"
    /\ ~last.threw
    /\ last.parentBefore = None
    /\ last.before = EmptyTree
    /\ last.frame # last.parentArg
    /\ frames = {last.frame, last.parentArg}
    /\ parent[last.frame] = last.parentArg
    /\ parent[last.parentArg] = None

\* The frame anc is an ancestor of the frame f.
IsAncestor(anc, f) == findAncestor(parent, f, anc) = anc

\* The frames whose history GetTransformMatrix looks up on the walk from cur
\* up to target, target excluded.
RECURSIVE walkHops(_, _, _)
walkHops(cur, target, seen) ==
    IF cur = target \/ cur = None \/ cur \in seen THEN {}
    ELSE {cur} \cup walkHops(parent[cur], target, seen \cup {cur})

\* The history of the frame f has no bracket for the time within maxDelta.
Missed(f, time, maxDelta) ==
    ~findClosestTransforms(transforms[f], <<TIME_ZERO, Identity>>,
                           <<TIME_ZERO, Identity>>, time, maxDelta).found

\* A lookup misses on the walk from the frame child up to its ancestor anc.
MissOnWalk(anc, child, time, maxDelta) ==
    /\ IsAncestor(anc, child)
    /\ \E g \in walkHops(child, anc, {}) : Missed(g, time, maxDelta)

\* C13: when parentFrame is an ancestor of childFrame and the lookup of a
\* frame on the walk from childFrame up to parentFrame misses,
\* GetTransformMatrix returns false; apply returns undefined when it makes
\* such a call, from the source frame up to the destination frame, its
\* ancestor, or, the destination frame not being above the source frame, from
\* the destination frame up to the source frame.  Neither throws.
C13_SoftFailure ==
    /\ (last.op = "GetTransformMatrix"
          /\ MissOnWalk(last.parentFrame, last.childFrame, last.time, last.maxDelta))
        => last.status = "false"
    /\ (last.op = "apply"
          /\ MissOnWalk(last.frame, last.srcFrame, last.time, last.maxDelta))
        => last.result = "undefined"
    /\ (last.op = "apply"
          /\ findAncestor(parent, last.srcFrame, last.frame) = None
          /\ MissOnWalk(last.srcFrame, last.frame, last.time, last.maxDelta))
        => last.result = "undefined"

\* A GetTransformMatrix call over two hops that found the transform of the
\* first hop and missed the transform of the second.
C13_Witness ==
    /\ last.op = "GetTransformMatrix"
    /\ parent[last.childFrame] \notin {None, last.childFrame, last.parentFrame}
    /\ parent[parent[last.childFrame]] = last.parentFrame
    /\ ~Missed(last.childFrame, last.time, last.maxDelta)
    /\ Missed(parent[last.childFrame], last.time, last.maxDelta)
    /\ last.status = "false"

\* The last call was GetTransformMatrix with a parentFrame that is neither
\* childFrame nor an ancestor of childFrame.
IsStrayWalk ==
    /\ last.op = "GetTransformMatrix"
    /\ last.parentFrame # last.childFrame
    /\ ~IsAncestor(last.parentFrame, last.childFrame)

\* C15 (as claimed): GetTransformMatrix called with a parentFrame that is
\* neither childFrame nor an ancestor of childFrame throws; it returns neither
\* true nor false.
C15_StructuralFatal == IsStrayWalk => last.status = "throw"

\* C15 (amended): such a call never returns true.  It returns false when the
\* lookup of a frame on the walk up from childFrame misses; when every lookup
\* hits it throws at the frame without parent, and does not return when the
\* parent links above childFrame cycle.
C15_StructuralNeverTrue ==
    IsStrayWalk =>
        IF \E g \in walkHops(last.childFrame, last.parentFrame, {}) :
              Missed(g, last.time, last.maxDelta)
        THEN last.status = "false"
        ELSE IF root(parent, last.childFrame) = Hang
        THEN last.status = Hang
        ELSE last.status = "throw"

\* A call with a parentFrame outside the chain of childFrame that threw at
\* the root of the chain, two hops up.
C15_Witness ==
    /\ IsStrayWalk
    /\ parent[last.childFrame] \notin {None, last.childFrame}
    /\ parent[parent[last.childFrame]] = None
    /\ last.status = "throw"

\* The frames f and g lie in different trees: the parent links lead each of
\* them to a frame without parent, and not to the same one.
InDifferentTrees(f, g) ==
    /\ root(parent, f) # Hang
    /\ root(parent, g) # Hang
    /\ root(parent, f) # root(parent, g)

\* C14: apply between two frames of the tree that lie in different trees
\* returns undefined, whatever the histories hold; it does not throw.
C14_NoPath ==
    (last.op = "apply" /\ InDifferentTrees(last.frame, last.srcFrame)) =>
        last.result = "undefined"

\* An apply between a frame with a parent and the root of another tree, both
\* with a transform at the time of the query.
C14_Witness ==
    /\ last.op = "apply"
    /\ InDifferentTrees(last.frame, last.srcFrame)
    /\ parent[last.frame] # None
    /\ ~Missed(last.frame, last.time, last.maxDelta)
    /\ ~Missed(last.srcFrame, last.time, last.maxDelta)
    /\ last.result = "undefined"

\* C11 (as claimed): when apply sent a pose from a frame B to a frame A, apply
\* from A to B at the same time on the resulting pose returns the pose that
\* was sent.
C11_RoundTrip ==
    last.op = "applyBack" =>
        /\ last.result = "out"
        /\ last.out = last.original

\* The tree holds the chain base_link -> odom -> map with the transforms of
\* the test stored at TIME_ZERO.
IsFixture ==
    /\ parent["base_link"] = "odom"
    /\ parent["odom"] = "map"
    /\ TIME_ZERO \in DOMAIN transforms["base_link"]
    /\ TIME_ZERO \in DOMAIN transforms["odom"]
    /\ transforms["base_link"][TIME_ZERO] = odom_T_baseLink
    /\ transforms["odom"][TIME_ZERO] = map_T_odom

\* C12: on the chain of the test, apply of the identity pose at time 0 from
\* base_link into map gives the position (9, 18, 33), and from map into
\* base_link the position (-9, -18, -33), both with the orientation of a half
\* turn about Z.
C12_FixtureValues ==
    (last.op = "apply" /\ IsFixture /\ last.input = PoseOf(0)) =>
        /\ (last.frame = "map" /\ last.srcFrame = "base_link") =>
              /\ last.result = "out"
              /\ last.out = [position |-> <<9, 18, 33>>, orientation |-> 2]
        /\ (last.frame = "base_link" /\ last.srcFrame = "map") =>
              /\ last.result = "out"
              /\ last.out = [position |-> <<0 - 9, 0 - 18, 0 - 33>>, orientation |-> 2]

\* The query from map into base_link on the chain of the test.
C12_Witness ==
    /\ last.op = "apply"
    /\ IsFixture
    /\ last.input = PoseOf(0)
    /\ last.frame = "base_link"
    /\ last.srcFrame = "map"
    /\ last.result = "out"

\* C20: once a tree has been cloned, frames(), hasFrame(id) and frame(id) give
\* the same answers through the tree and through its clone, after every
\* getOrCreateFrame and addTransform call on either of them.
C20_SharedClone ==
    clone.made =>
        /\ framesOf("tree") = framesOf("clone")
        /\ \A id \in FrameIds :
             /\ hasFrame("tree", id) = hasFrame("clone", id)
             /\ frame("tree", id) = frame("clone", id)

\* An addTransform call on the clone registered a frame unknown until then
\* and stored its transform; the tree holds that frame, among three.
C20_Witness ==
    /\ clone.made
    /\ last.op = "clone.addTransform"
    /\ ~last.existed
    /\ ~last.threw
    /\ hasFrame("tree", last.frame)
    /\ transforms[last.frame] # EmptyTree
    /\ Cardinality(framesOf("tree")) = 3

\* C10: apply with the source frame equal to the destination frame, a frame of
\* the tree, returns out, and out has the position and the orientation of the
\* input, for every input pose, time and maxDelta and every history.
C10_ApplyIdentity ==
    (last.op = "apply" /\ last.frame = last.srcFrame /\ last.frame \in frames) =>
        /\ last.result = "out"
        /\ last.out.position = last.input.position
        /\ last.out.orientation = last.input.orientation

\* An identity query on a frame without history, at a time further than
\* maxDelta from every stored transform, with an input that differs from out.
C10_Witness ==
    /\ last.op = "apply"
    /\ last.frame = last.srcFrame
    /\ last.frame \in frames
    /\ transforms[last.frame] = EmptyTree
    /\ TickOf(last.time) > TickOf(last.maxDelta)
    /\ last.input # last.outBefore
    /\ last.result = "out"

(***************************************************************************)
(* Properties of the parent links.                                         *)
(***************************************************************************)
\* C30 (as claimed): after every sequence of getOrCreateFrame, addTransform,
\* addTransformMessage and setParent calls no frame is its own ancestor, and
\* root() and findAncestor(id) return on every frame.
C30_Forest ==
    \A f \in FrameIds :
        /\ findAncestor(parent, f, f) = None
        /\ root(parent, f) # Hang
        /\ \A id \in FrameIds : findAncestor(parent, f, id) # Hang

\* The parents of the frames of S.
ParentsOf(S) == {parent[x] : x \in S} \ {None}

\* The frames that n or fewer parent links lead to from the frames of S, S
\* excluded unless a link leads back to it.
RECURSIVE AncestorsWithin(_, _)
AncestorsWithin(S, n) ==
    IF n = 0 THEN {}
    ELSE ParentsOf(S) \cup AncestorsWithin(ParentsOf(S), n - 1)

\* The strict ancestors of a frame: its parent, the parent of its parent,
\* and so on.
StrictAncestors(f) == AncestorsWithin({f}, Cardinality(FrameIds))

\* C21 (as claimed): findAncestor(id) returns the strict ancestor of the
\* frame with that id, and undefined when no strict ancestor has that id; it
\* never returns the frame it is called on.
C21_FindAncestor ==
    last.op = "findAncestor" =>
        /\ last.result = IF last.id \in StrictAncestors(last.frame)
                         THEN last.id ELSE None
        /\ last.result # last.frame

\* The frames f and g have a common ancestor, or one is the other or an
\* ancestor of the other.
Related(f, g) ==
    (StrictAncestors(f) \cup {f}) \cap (StrictAncestors(g) \cup {g}) # {}

\* C22 (as claimed): root() returns a frame without parent that is the
\* receiver or one of its strict ancestors, the receiver itself when it has no
\* parent, and every frame that has a common ancestor with the receiver, or
\* is above or below it, has the same root.
C22_Root ==
    last.op = "root" =>
        /\ last.result \in StrictAncestors(last.frame) \cup {last.frame}
        /\ parent[last.result] = None
        /\ parent[last.frame] = None => last.result = last.frame
        /\ \A g \in frames : Related(last.frame, g) => root(parent, g) = last.result

(***************************************************************************)
(* Properties of the transforms held by reference (SpecRef).               *)
(***************************************************************************)
\* The histories, every entry with the value that the object given to
\* addTransform for its frame has now.
Current ==
    [f \in FrameIds |->
        [k \in DOMAIN transforms[f] |->
            objects[(CHOOSE e \in RefEdges : e[1] = f)[3]]]]

\* C23: an apply call returns what the transforms of the path give with the
\* values that the caller's objects have at the time of the call, whatever
\* their values were when they were given to addTransform.
C23_StoredByReference ==
    (last.op = "apply" /\ last.frame \in frames /\ last.srcFrame \in frames) =>
        /\ last.result = apply(parent, Current, last.frame, last.outBefore, last.input,
                               last.srcFrame, last.time, last.maxDelta).result
        /\ last.out = apply(parent, Current, last.frame, last.outBefore, last.input,
                            last.srcFrame, last.time, last.maxDelta).out

\* Both objects were given to addTransform as the identity and changed in
\* place afterwards, and apply from base_link into map gives (9, 18, 33).
C23_Witness ==
    /\ last.op = "apply"
    /\ last.frame = "map"
    /\ last.srcFrame = "base_link"
    /\ objects["odom_T_baseLink"] = odom_T_baseLink
    /\ objects["map_T_odom"] = map_T_odom
    /\ last.result = "out"
    /\ last.out.position = <<9, 18, 33>>

(***************************************************************************)
(* Properties of the registry and of the insertions (Spec).                *)
(***************************************************************************)
\* C24: a step of addTransformMessage on the message with header.frame_id p,
\* header.stamp t, child_frame_id c and the translation and rotation of tf
\* is the step of addTransform(c, p, t, tf) from the same state but for the
\* name of the operation: same registry, parent links, histories and windows
\* after it, and it throws in the same cases.
C24_MessageAsAddTransform ==
    [][last'.op = "addTransformMessage" =>
          \A c, p \in FrameIds, t \in TreeTimes, tf \in Tfs :
              TreeAddTransformMessage(TF(p, t, c, tf)) =>
                  TreeAdd("addTransformMessage", c, p, t, tf)]_vars

\* An addTransformMessage call between two frames that replaced the
\* transform stored for its stamp.
C24_Witness ==
    /\ last.op = "addTransformMessage"
    /\ last.frame # last.parentArg
    /\ ~last.threw
    /\ last.time \in DOMAIN last.before
    /\ last.before[last.time] # last.transform
    /\ parent[last.frame] = last.parentArg
    /\ transforms[last.frame][last.time] = last.transform

\* C25: a new tree has no frames; every step keeps the registered ids, and a
\* hasFrame, frame, frames or apply step registers none.
C25_RegistryOnlyGrows ==
    /\ frames = {}
    /\ [][/\ frames \subseteq frames'
          /\ last'.op \in {"hasFrame", "frame", "frames", "apply"} => frames' = frames]_vars

\* An apply call from the empty string, which is not registered then and is
\* not registered after it, in a tree that holds a frame with a parent.
C25_Witness ==
    /\ last.op = "apply"
    /\ last.srcFrame = ""
    /\ last.frame \in frames
    /\ parent[last.frame] \in frames
    /\ last.result = "undefined"
    /\ ~hasFrame("tree", "")

(***************************************************************************)
(* Properties of the paths that apply follows (SpecWalk).                  *)
(***************************************************************************)
\* The frames f and g are frames of one tree.
InOneTree(f, g) == root(parent, f) # Hang /\ root(parent, f) = root(parent, g)

\* The lowest common ancestor of two frames of one tree, which may be one of
\* the two: the common ancestor that every other common ancestor is above.
LowestCommon(f, g) ==
    LET common == (StrictAncestors(f) \cup {f}) \cap (StrictAncestors(g) \cup {g})
    IN  CHOOSE l \in common : common \subseteq StrictAncestors(l) \cup {l}

\* The histories, those of the frame l and of its ancestors emptied.
EmptiedFrom(l) ==
    [f \in FrameIds |->
        IF f \in StrictAncestors(l) \cup {l} THEN EmptyTree ELSE transforms[f]]

\* What apply returns for the arguments of the last apply call on the
\* histories trees.
ReApply(trees) ==
    apply(parent, trees, last.frame, last.outBefore, last.input, last.srcFrame,
          last.time, last.maxDelta)

\* C26: apply between two distinct frames of one tree returns out if the
\* lookup of every frame from the source frame and from the destination
\* frame up to their lowest common ancestor, excluded, finds a bracket, and
\* undefined if one of them misses; it returns the same, with the same out
\* pose, when the histories of the lowest common ancestor and of the frames
\* above it are emptied.
C26_EdgesBelowCommon ==
    (last.op = "apply" /\ last.frame # last.srcFrame
       /\ InOneTree(last.frame, last.srcFrame)) =>
        /\ last.result =
             IF \E g \in walkHops(last.srcFrame,
                                  LowestCommon(last.frame, last.srcFrame), {})
                         \cup walkHops(last.frame,
                                       LowestCommon(last.frame, last.srcFrame), {}) :
                   Missed(g, last.time, last.maxDelta)
             THEN "undefined" ELSE "out"
        /\ last.result = ReApply(EmptiedFrom(LowestCommon(last.frame, last.srcFrame))).result
        /\ last.out = ReApply(EmptiedFrom(LowestCommon(last.frame, last.srcFrame))).out

\* An apply between two frames whose lowest common ancestor is a third frame
\* without history returned out.
C26_Witness ==
    /\ last.op = "apply"
    /\ last.frame # last.srcFrame
    /\ InOneTree(last.frame, last.srcFrame)
    /\ LowestCommon(last.frame, last.srcFrame) \notin {last.frame, last.srcFrame}
    /\ transforms[LowestCommon(last.frame, last.srcFrame)] = EmptyTree
    /\ last.result = "out"

(***************************************************************************)
(* The exact effect of an insertion (SpecFrame).                           *)
(***************************************************************************)
\* The previous history with the inserted timestamp mapped to the inserted
\* transform.
Inserted ==
    [k \in (DOMAIN last.before) \cup {last.time} |->
        IF k = last.time THEN last.transform ELSE last.before[k]]

\* The greatest timestamp of Inserted.
Newest == CHOOSE n \in DOMAIN Inserted : \A k \in DOMAIN Inserted : TickOf(k) <= TickOf(n)

\* The timestamps of Inserted that are not older than Newest minus the
\* retention window.
Retained ==
    {k \in DOMAIN Inserted :
        TickOf(k) >= TickOf(Newest) - TickOf(maxStorageTime[TheFrame])}

\* C27: after a CoordinateFrame.addTransform call on a frame whose
\* maxStorageTime is not negative, the history is the previous history with
\* the inserted timestamp mapped to the inserted transform, restricted to the
\* timestamps that are not older than the greatest one minus maxStorageTime;
\* and when the inserted timestamp is older than that and the previous
\* history was not empty, the history is the previous history.
C27_ExactInsertion ==
    (IsAdd /\ TickOf(maxStorageTime[TheFrame]) >= 0) =>
        /\ History = [k \in Retained |-> Inserted[k]]
        /\ (last.before # EmptyTree
              /\ TickOf(last.time) < TickOf(Newest) - TickOf(maxStorageTime[TheFrame]))
             => History = last.before

\* An insertion evicted an entry and kept an older entry that is exactly
\* maxStorageTime older than the newest one.
C27_Witness ==
    /\ IsAdd
    /\ TickOf(maxStorageTime[TheFrame]) > 0
    /\ Evicted # {}
    /\ \E k \in DOMAIN History :
         TickOf(k) = TickOf(Newest) - TickOf(maxStorageTime[TheFrame])

(***************************************************************************)
(* Interpolation on the bracket of a lookup (SpecFrame).                   *)
(***************************************************************************)
IsInterpolate == last.op = "Interpolate"

\* The number x lies between a and b, both included.
Between(x, a, b) == (a <= x /\ x <= b) \/ (b <= x /\ x <= a)

\* C28: an Interpolate call on a bracket whose lower and upper timestamps are
\* equal yields the transform stored at that timestamp, whatever the time
\* argument is; on a bracket of two entries it yields the lower transform for
\* a time at or before the lower timestamp, the upper transform for a time at
\* or after the upper timestamp, and a position between the two otherwise.
C28_NoInterpolationAtOneEntry ==
    IsInterpolate =>
        IF last.lower[1] = last.upper[1]
        THEN /\ last.lower[1] \in DOMAIN History
             /\ last.outTf = History[last.lower[1]]
        ELSE /\ TickOf(last.time) <= TickOf(last.lower[1]) => last.outTf = last.lower[2]
             /\ TickOf(last.time) >= TickOf(last.upper[1]) => last.outTf = last.upper[2]
             /\ \A i \in 1..3 :
                  Between(last.outTf.position[i], last.lower[2].position[i],
                          last.upper[2].position[i])

\* An Interpolate call at another time than the one of a bracket with equal
\* timestamps, found in a history of two entries with different transforms.
C28_Witness ==
    /\ IsInterpolate
    /\ last.lower[1] = last.upper[1]
    /\ last.time # last.lower[1]
    /\ \E k \in DOMAIN History : History[k] # last.outTf

(***************************************************************************)
(* Queries do not write to the graph (SpecQuery).                          *)
(***************************************************************************)
\* C29: a findClosestTransforms, GetTransformMatrix or apply call leaves
\* every history, every stored transform and every parent link as it was,
\* and a findClosestTransforms call that returns false leaves outLower and
\* outUpper as they were.
C29_QueriesReadOnly ==
    [][/\ last'.op \in {"findClosestTransforms", "GetTransformMatrix", "apply"} =>
            /\ transforms' = transforms
            /\ objects' = objects
            /\ parent' = parent
       /\ (last'.op = "findClosestTransforms" /\ ~last'.found) =>
            /\ outLower' = outLower
            /\ outUpper' = outUpper]_vars

\* A lookup on a frame with history returned false after an earlier lookup
\* had written an entry to outLower and outUpper.
C29_Witness ==
    /\ last.op = "findClosestTransforms"
    /\ ~last.found
    /\ transforms[last.frame] # EmptyTree
    /\ outLower = <<TIME_ZERO, HalfTurn>>
    /\ outUpper = <<TIME_ZERO, HalfTurn>>

(***************************************************************************)
(* The out pose of apply (SpecWalk).                                       *)
(***************************************************************************)
\* C31: when apply returns undefined, the out pose holds the position and
\* the orientation it held before the call.
C31_OutOnlyOnSuccess ==
    (last.op = "apply" /\ last.result = "undefined") => last.out = last.outBefore

\* The parent links lead the frame f to a frame without parent.
OnForest(f) == root(parent, f) # Hang

\* The <<parentFrame, childFrame>> pairs of the GetTransformMatrix calls that
\* CoordinateFrame.apply on the frame this makes through Apply for the source
\* frame srcFrame, the second call of the common parent case included.
applyWalks(par, this, srcFrame) ==
    IF srcFrame = this THEN {}
    ELSE IF findAncestor(par, srcFrame, this) \notin {None, Hang}
    THEN {<<this, srcFrame>>}
    ELSE IF findAncestor(par, this, srcFrame) \notin {None, Hang}
    THEN {<<srcFrame, this>>}
    ELSE IF commonWalk(par, this, srcFrame, {}) \in {None, Hang} THEN {}
    ELSE {<<commonWalk(par, this, srcFrame, {}), srcFrame>>,
          <<commonWalk(par, this, srcFrame, {}), this>>}

\* C32: on parent links that form a forest, every GetTransformMatrix call of
\* an apply between two registered frames has a parentFrame that is an
\* ancestor of its childFrame, and apply returns out or undefined: it does
\* not throw.
C32_ApplyNeverThrows ==
    (last.op = "apply" /\ OnForest(last.frame) /\ OnForest(last.srcFrame)) =>
        /\ \A w \in applyWalks(parent, last.frame, last.srcFrame) :
             w[1] \in StrictAncestors(w[2])
        /\ last.result \in {"out", "undefined"}

\* An apply from a frame to a frame below it returned out although the root
\* of the tree has a history whose lookup hits: a walk past the root would
\* have thrown.
C32_Witness ==
    /\ last.op = "apply"
    /\ OnForest(last.frame)
    /\ last.frame \in StrictAncestors(last.srcFrame)
    /\ ~Missed(root(parent, last.frame), last.time, last.maxDelta)
    /\ last.result = "out"

(***************************************************************************)
(* The temporaries of the module (SpecScratch).                            *)
(***************************************************************************)
\* C33: an apply call that runs on the temporaries as earlier apply and
\* GetTransformMatrix calls, successful or failed, left them returns what
\* apply returns as a function of the parent links, the histories, the out
\* and input poses, the two frames, the time and maxDelta, with the same out
\* pose.
C33_NoScratchLeak ==
    last.op = "apply" =>
        /\ last.result = ReApply(transforms).result
        /\ last.out = ReApply(transforms).out

\* An apply call returned out after it started on a tempMatrix and a
\* tempTransform that an earlier call had left, not the ones of a new module.
C33_Witness ==
    /\ last.op = "apply"
    /\ last.frame # last.srcFrame
    /\ last.tempsBefore.tempMatrix # mat4Identity
    /\ last.tempsBefore.tempTransform # Identity
    /\ last.tempsBefore.tempTransform # tempTransform
    /\ last.result = "out"

(***************************************************************************)
(* The objects of the caller's poses (SpecAlias).                          *)
(***************************************************************************)
\* C34: after apply returned out, the position and the orientation of out
\* are other objects than the position and the orientation of input; and a
\* write of the caller into the position and the orientation of out, or of
\* a later apply, leaves the input pose as it was.
C34_InputCopied ==
    /\ (last.op = "apply" /\ last.result = "out") =>
          /\ poses.out.position # poses.input.position
          /\ poses.out.orientation # poses.input.orientation
    /\ last.op \in {"apply", "write"} => PoseValue(poses.input) = last.inputBefore

(***************************************************************************)
(* Histories and parents under the operations of the tree (SpecGraph).     *)
(***************************************************************************)
\* C35: after any sequence of getOrCreateFrame, addTransform and
\* addTransformMessage calls, accepted or rejected, a registered frame has a
\* history that is not empty exactly when it has a parent, and no call
\* empties a history that is not empty.
C35_HistoryIffParent ==
    /\ [](\A f \in frames : (transforms[f] # EmptyTree) <=> (parent[f] # None))
    /\ [][\A f \in FrameIds : transforms[f] # EmptyTree => transforms'[f] # EmptyTree]_vars

\* A rejected addTransform on a frame with a parent and a history from which
\* an earlier insertion evicted an entry, towards a registered frame without
\* parent and without history.
C35_Witness ==
    /\ IsTreeAdd
    /\ last.threw
    /\ parent[last.frame] # None
    /\ DOMAIN transforms[last.frame] = {LATE_STAMP}
    /\ last.parentArg \in frames
    /\ parent[last.parentArg] = None
    /\ transforms[last.parentArg] = EmptyTree

(***************************************************************************)
(* filterOutSupersededMessages (SpecFilter).                               *)
(***************************************************************************)
IsFilter == last.op = "filterOutSupersededMessages"

RECURSIVE Pick(_, _, _)
\* The subsequence of array at the indices of keep that are i or greater.
Pick(array, keep, i) ==
    IF i > Len(array) THEN <<>>
    ELSE IF i \in keep THEN <<array[i]>> \o Pick(array, keep, i + 1)
    ELSE Pick(array, keep, i + 1)

\* The indices of the messages with a lifetime and of the last message
\* without.
Kept(array) ==
    {i \in 1..Len(array) :
        \/ array[i].lifetime # None
        \/ \A j \in (i + 1)..Len(array) : array[j].lifetime # None}

\* C36: for a datatype that is no marker array, filterOutSupersededMessages
\* returns the messages that have a lifetime and the last message that has
\* none, in the order of the array, and leaves the array it was given as it
\* was.
C36_LastWithoutLifetime ==
    (IsFilter /\ last.datatype \notin MARKER_ARRAY_DATATYPES) =>
        /\ last.result = Pick(last.before, Kept(last.before), 1)
        /\ messages = last.before

\* A call dropped a message without lifetime and kept a later one and a
\* message whose lifetime is a zero duration.
C36_Witness ==
    /\ IsFilter
    /\ last.datatype \notin MARKER_ARRAY_DATATYPES
    /\ Len(last.before) = 3
    /\ last.before[1].lifetime = None
    /\ last.before[2].lifetime = ZERO_LIFETIME
    /\ last.before[3].lifetime = None
    /\ last.before[1] # last.before[3]
    /\ last.result = SubSeq(last.before, 2, 3)

\* C37: for a marker array datatype, filterOutSupersededMessages returns the
\* messages from the latest one whose first marker has action 3 on, in the
\* order of the array, and the whole array when no message begins with such a
\* marker.
C37_FromLastDeleteAll ==
    (IsFilter /\ last.datatype \in MARKER_ARRAY_DATATYPES) =>
        LET deleteAll == {i \in 1..Len(last.before) : last.before[i].markers = <<3>>}
        IN  IF deleteAll = {} THEN last.result = last.before
            ELSE \E i \in deleteAll :
                    /\ \A j \in deleteAll : j <= i
                    /\ last.result = SubSeq(last.before, i, Len(last.before))

\* A call on an array with two messages that begin with a delete-all marker
\* returned the messages from the second of them on.
C37_Witness ==
    /\ IsFilter
    /\ last.datatype \in MARKER_ARRAY_DATATYPES
    /\ Len(last.before) = 3
    /\ last.before[1].markers = <<3>>
    /\ last.before[2].markers = <<3>>
    /\ last.before[3].markers = <<0>>
    /\ last.before[3].lifetime = None
    /\ last.result = SubSeq(last.before, 2, 3)

\* A renderMarkers call that ran past its guard and returned.
IsRender ==
    /\ last.op = "renderMarkers"
    /\ last.result = "returned"
    /\ sceneTransforms # None
    /\ rootTransformID \notin {None, ""}

\* The frame ids of the collected markers of a topic that are enabled by
\* their namespace, or have none, and had no pose in the root frame at the
\* time of the call.
MissingFrames(topic) ==
    {marker.frame_id :
        marker \in {m \in collectors[topic] :
                       /\ m.ns = "" \/ namespaceIsEnabled(topic, m.ns)
                       /\ computeMarkerPose(m, rootTransformID, last.time) = "undefined"}}

\* C38: after a renderMarkers call that ran with transforms and a root
\* frame id, errors.topicsMissingTransforms has an entry for a topic iff
\* the topic is one of topicsByName, has a collector, and one of its
\* enabled collected markers had no pose; the frameIds of the entry are the
\* frame ids of those markers, whatever the map held before the call.
C38_MissingTransforms ==
    IsRender =>
        /\ DOMAIN topicsMissingTransforms =
              {t \in topicsByName \cap DOMAIN collectors : MissingFrames(t) # {}}
        /\ \A t \in DOMAIN topicsMissingTransforms :
              topicsMissingTransforms[t] = MissingFrames(t)

\* A call that dropped the entry of an earlier call and reported a topic
\* without the frame of one of its markers, which has no pose and is of a
\* namespace that is not enabled.
C38_Witness ==
    /\ IsRender
    /\ \E t \in DOMAIN last.before : t \notin DOMAIN topicsMissingTransforms
    /\ \E t \in DOMAIN topicsMissingTransforms :
          \E m \in collectors[t] :
             /\ m.ns # "" /\ ~namespaceIsEnabled(t, m.ns)
             /\ computeMarkerPose(m, rootTransformID, last.time) = "undefined"
             /\ m.frame_id \notin topicsMissingTransforms[t]

====
